---- MODULE Spec2Model ----
(***************************************************************************)
(* Order screen of captain-app (src/unnamed/part_004, lines 1-1600): the   *)
(* order draft of one table, its synchronisation with the bill the backend *)
(* holds for that table, the local edits of the draft and the KOT          *)
(* operations.  The backend and the other terminals working on the same    *)
(* bill are the environment.                                               *)
(***************************************************************************)
EXTENDS Integers, Sequences, FiniteSets, TLC

VARIABLES
    orderItems,                 \* useState<OrderItem[]>            (line 67)
    originalSubmittedItems,     \* useState<OrderItem[]>            (line 78)
    existingBillId,             \* useState<string | null>          (line 73)
    hasPendingChanges,          \* useState(false)                  (line 80)
    loading,                    \* useState(false)                  (line 68)
    loadingLastOrder,           \* useState(false)                  (line 74)
    suppressRemovedAfterFetch,  \* useState(false)                  (line 79)
    fetchSuppress,              \* suppressRemovedAfterFetch as captured by the
                                \* current fetchLastOrder callback  (lines 119, 205, 238)
    categories,                 \* whether fetchCategories has delivered the categories (lines 63, 330-352)
    syncs,                      \* getTableStatus responses on their way to fetchLastOrder
    op,                         \* the KOT operation in progress, with the state its closure captured
    serverBill,                 \* the bill the backend holds for the table, as the last
                                \* request of this terminal found or left it
    otherBill,                  \* the bill the other terminals make of the table's bill
    taps,                       \* the taps so far
    tableNumber,                \* params.tableNumber                (line 58)
    billNumber,                 \* useState<string | null>(null)     (line 70)
    sequenceNumber,             \* useState<number>(0)               (line 72)
    alert,                      \* the dialog Alert.alert has put up
    serverNumber,               \* the number of the next bill, as the backend holds it
    products,                   \* useState<Product[]>: the price of every product (line 64)
    taxSettings,                \* useState({ cgst: 0, sgst: 0 })   (line 76)
    token,                      \* whether AsyncStorage holds the session token (lines 124, 221)
    route,                      \* the screen the router shows      (line 225)
    other                       \* the bill-creating operation of a second device

vars == <<orderItems, originalSubmittedItems, existingBillId, hasPendingChanges,
          loading, loadingLastOrder, suppressRemovedAfterFetch, fetchSuppress,
          categories, syncs, op, serverBill, otherBill, taps,
          tableNumber, billNumber, sequenceNumber, alert, serverNumber,
          products, taxSettings, token, route, other>>

----------------------------------------------------------------------------
(* Bounds of the model *)

MaxRows == 2        \* most rows of the server bill
MaxTaps == 2        \* most taps of a run: product card, +, -, restore, Submit to KOT, Update KOT, Complete Order
MaxBillRows == 3    \* most rows of the bill whose diff Update KOT computes

(* Program constants *)

NoBillId == "null"      \* existingBillId === null
OtherBillId == "b1"     \* the id of the bill the other terminals work on
OwnBillId == "b2"       \* the id the backend gives the bill this terminal creates

NoTable == "null"       \* params.tableNumber is missing
ThisTable == "t1"

NoAlert == "none"       \* no dialog is up

OrderScreen == "order"              \* the screen of this component
LoginScreen == "/screens/LoginScreen"

\* the router still shows this screen: the user can tap it and it gets the focus
OnScreen == route = OrderScreen

Products == {"p1", "p2"}


ActiveStatuses == {"pending", "preparing", "ready"}
OtherStatuses == {"pending", "completed"}    \* the statuses other terminals give a bill

----------------------------------------------------------------------------
(* JavaScript numbers: IEEE 754 binary64, round to nearest, ties to even.
   A number that is not negative is m * 2^e, with m a natural number of at
   most 53 bits held as limbs of LimbBits bits, the lowest first.  The
   exponent range is not modelled: the amounts stay far inside it. *)

LimbBits == 14
Base == 16384               \* 2^LimbBits
Precision == 53             \* bits of a binary64 significand
GuardShift == 70            \* bits a dividend is shifted by, to keep the quotient's guard bits

RECURSIVE Pow2(_)
Pow2(n) == IF n = 0 THEN 1 ELSE 2 * Pow2(n - 1)

Max(a, b) == IF a >= b THEN a ELSE b
Min(a, b) == IF a <= b THEN a ELSE b

\* the limbs of a natural number below 2^31
RECURSIVE Big(_)
Big(n) == IF n = 0 THEN <<>> ELSE <<n % Base>> \o Big(n \div Base)

\* the natural number of limbs that stay below 2^31
RECURSIVE ToInt(_)
ToInt(a) == IF a = <<>> THEN 0 ELSE Head(a) + Base * ToInt(Tail(a))

RECURSIVE Trim(_)
Trim(a) ==
    IF a = <<>> THEN <<>>
    ELSE IF a[Len(a)] = 0 THEN Trim(SubSeq(a, 1, Len(a) - 1))
    ELSE a

Limb(a, i) == IF i \in 1..Len(a) THEN a[i] ELSE 0

\* the limbs of the number whose limb columns hold cols, c carried in
RECURSIVE Carry(_, _)
Carry(cols, c) ==
    IF cols = <<>> THEN Big(c)
    ELSE LET v == Head(cols) + c
         IN  <<v % Base>> \o Carry(Tail(cols), v \div Base)

AddBig(a, b) == Trim(Carry([i \in 1..Max(Len(a), Len(b)) |-> Limb(a, i) + Limb(b, i)], 0))

\* the products a[i] * b[j] with i + j = k + 1 and i <= n, added up
RECURSIVE ColumnSum(_, _, _, _)
ColumnSum(a, b, k, n) ==
    IF n = 0 THEN 0 ELSE a[n] * Limb(b, k + 1 - n) + ColumnSum(a, b, k, n - 1)

MulBig(a, b) ==
    IF a = <<>> \/ b = <<>> THEN <<>>
    ELSE Trim(Carry([k \in 1..(Len(a) + Len(b) - 1) |->
                        ColumnSum(a, b, k, Len(a))], 0))

\* quotient and remainder of a by a divisor below Base
RECURSIVE DivSmall(_, _)
DivSmall(a, d) ==
    IF a = <<>> THEN [q |-> <<>>, r |-> 0]
    ELSE LET up == DivSmall(Tail(a), d)
             v == up.r * Base + Head(a)
         IN  [q |-> <<v \div d>> \o up.q, r |-> v % d]

ShiftLeft(a, n) ==
    IF a = <<>> THEN <<>>
    ELSE [i \in 1..(n \div LimbBits) |-> 0]
         \o Trim(Carry([i \in 1..Len(a) |-> a[i] * Pow2(n % LimbBits)], 0))

\* a shifted right by n bits, and whether a bit that was 1 got lost
ShiftRight(a, n) ==
    LET k == Min(n \div LimbBits, Len(a))
        dv == DivSmall(SubSeq(a, k + 1, Len(a)), Pow2(n % LimbBits))
    IN  [q |-> Trim(dv.q),
         lost |-> dv.r # 0 \/ \E i \in 1..k : a[i] # 0]

RECURSIVE BitsOf(_)
BitsOf(n) == IF n = 0 THEN 0 ELSE 1 + BitsOf(n \div 2)

BitLen(a) == IF a = <<>> THEN 0 ELSE LimbBits * (Len(a) - 1) + BitsOf(a[Len(a)])

Zero == [m |-> <<>>, e |-> 0]

\* m * 2^e with m odd: one record per number
RECURSIVE Canon(_, _)
Canon(m, e) ==
    IF m = <<>> THEN Zero
    ELSE IF m[1] = 0 THEN Canon(Tail(m), e + LimbBits)
    ELSE IF m[1] % 2 = 0 THEN Canon(DivSmall(m, 2).q, e + 1)
    ELSE [m |-> Trim(m), e |-> e]

\* the binary64 nearest to m * 2^e (+ a nonzero part below the last bit of m, if
\* sticky), ties to even
RoundToDouble(m, e, sticky) ==
    IF BitLen(m) <= Precision THEN Canon(m, e)
    ELSE LET k == BitLen(m) - Precision
             kept == ShiftRight(m, k - 1)
             guard == kept.q[1] % 2 = 1
             q == Trim(DivSmall(kept.q, 2).q)
             up == guard /\ (kept.lost \/ sticky \/ q[1] % 2 = 1)
         IN  Canon(IF up THEN AddBig(q, <<1>>) ELSE q, e + k)

\* the number a decimal literal n/d denotes (parseFloat, Number, JSON.parse)
Decimal(n, d) ==
    LET dv == DivSmall(ShiftLeft(Big(n), GuardShift), d)
    IN  RoundToDouble(Trim(dv.q), 0 - GuardShift, dv.r # 0)

Num(n) == Canon(Big(n), 0)

\* x * y
Times(x, y) == RoundToDouble(MulBig(x.m, y.m), x.e + y.e, FALSE)

\* x / d for a natural divisor below Base
Over(x, d) ==
    LET dv == DivSmall(ShiftLeft(x.m, GuardShift), d)
    IN  RoundToDouble(Trim(dv.q), x.e - GuardShift, dv.r # 0)

\* x + y
Plus(x, y) ==
    LET low == Min(x.e, y.e)
    IN  IF x = Zero THEN y
        ELSE IF y = Zero THEN x
        ELSE RoundToDouble(AddBig(ShiftLeft(x.m, x.e - low), ShiftLeft(y.m, y.e - low)),
                           low, FALSE)

\* Math.ceil, for a result below 2^31
Ceiling(x) ==
    IF x.e >= 0 THEN ToInt(ShiftLeft(x.m, x.e))
    ELSE LET cut == ShiftRight(x.m, 0 - x.e)
         IN  ToInt(cut.q) + (IF cut.lost THEN 1 ELSE 0)

\* Math.floor, for a result below 2^31
Floor(x) ==
    IF x.e >= 0 THEN ToInt(ShiftLeft(x.m, x.e)) ELSE ToInt(ShiftRight(x.m, 0 - x.e).q)

----------------------------------------------------------------------------
(* Values *)

Undefined == {}                 \* an optional number that is not set
Some(n) == {n}
OrZero(o) == IF o = Undefined THEN 0 ELSE CHOOSE n \in o : TRUE      \* (x || 0)
OrOne(o) == IF OrZero(o) = 0 THEN 1 ELSE OrZero(o)                  \* (x || 1)

\* prices and tax rates are written with two decimals: 240 is 2.40
Scale == 100

\* the prices the backend holds: p1 costs 50.00 and p2 30.00
Catalogue == [p \in Products |-> IF p = "p1" THEN Some(5000) ELSE Some(3000)]

\* taxSettings before fetchTaxSettings has delivered
NoTax == [sgst |-> 0, cgst |-> 0]

NoLocalId == [tag |-> "undefined", pid |-> "", n |-> 0]
SrvId(p) == [tag |-> "srv", pid |-> p, n |-> 0]
SrvRemovedId(p) == [tag |-> "srv-removed", pid |-> p, n |-> 0]
LocalId(k) == [tag |-> "local", pid |-> "", n |-> k]
RemovedId(p, k) == [tag |-> "removed", pid |-> p, n |-> k]

\* Date.now() and Math.random() give a value no line of the draft carries yet.
Fresh(items) ==
    CHOOSE k \in 1..(Len(items) + 1) :
        /\ \A i \in 1..Len(items) : items[i].localId.n # k
        /\ \A j \in 1..(k - 1) : \E i \in 1..Len(items) : items[i].localId.n = j

OrderItem(p, q, st, oq, lid, sids) ==
    [pid |-> p, quantity |-> q, itemStatus |-> st, originalQuantity |-> oq,
     localId |-> lid, serverItemIds |-> sids]

NoServerBill == [exists |-> FALSE, id |-> NoBillId, status |-> "none", items |-> <<>>,
                 billNumber |-> Undefined]

OtherBillNumber == Some(0)      \* the number of the bill the other terminals work on

\* a row of bill.items with no update record yet
Row(p, q, st) == [pid |-> p, quantity |-> q, status |-> st, updates |-> <<>>]

\* a record of the updates list of a row (timestamp and updatedBy left out)
Update(changeType, q) == [changeType |-> changeType, quantity |-> q]

Abs(n) == IF n < 0 THEN 0 - n ELSE n

NoPayload == [id |-> NoBillId, edits |-> <<>>, added |-> <<>>, items |-> <<>>, status |-> "none"]

NoResponse == [kind |-> "none", bill |-> NoServerBill]

\* the second device has no operation under way
NoOther == [step |-> "idle", fetched |-> 0, billNumber |-> Undefined]

\* the body of POST /api/bill/create
NoBillData == [status |-> "none", items |-> <<>>, totalAmount |-> Zero, billNumber |-> Undefined]

\* a body that completes the bill whatever is asked
StatusDataCompleted(id, status) == [id |-> id, status |-> "completed"]

\* the body of PUT /api/bill/updateStatus
StatusData(id, status) == [id |-> id, status |-> status]

\* an operation in progress: the state its closure captured (items, submitted,
\* billId, fsup), the requests it has sent (sent) with their bodies (payload,
\* create, status) and the answers it got (resp, fetched, ok)
NoOp == [kind |-> "idle", step |-> "idle", items |-> <<>>, submitted |-> <<>>,
         billId |-> NoBillId, fsup |-> FALSE, resp |-> NoResponse,
         payload |-> NoPayload, ok |-> TRUE, sent |-> <<>>, create |-> NoBillData,
         status |-> StatusData(NoBillId, "none"), fetched |-> 0]

----------------------------------------------------------------------------
(* Array helpers *)

RECURSIVE SumSeq(_)
SumSeq(s) == IF s = <<>> THEN 0 ELSE Head(s) + SumSeq(Tail(s))

\* Array.prototype.findIndex and find, given the set S of the indices whose
\* element passes: the first of them, 0 for -1 and for undefined
FindIndex(S) == IF S = {} THEN 0 ELSE CHOOSE i \in S : \A j \in S : i <= j

\* Array.prototype.filter, given the set S of the indices whose element passes:
\* these indices in array order
RECURSIVE Indices(_)
Indices(S) ==
    IF S = {} THEN <<>>
    ELSE LET m == CHOOSE i \in S : \A j \in S : i <= j
         IN  <<m>> \o Indices(S \ {m})

RECURSIVE Flatten(_)
Flatten(ss) == IF ss = <<>> THEN <<>> ELSE Head(ss) \o Flatten(Tail(ss))

RemoveAt(s, i) == SubSeq(s, 1, i - 1) \o SubSeq(s, i + 1, Len(s))

IsOriginal(it) == it.itemStatus = "none" \/ it.itemStatus = "original"

----------------------------------------------------------------------------
(* fetchLastOrder: the server bill mapped to draft lines *)

\* the product ids of the rows, each once, in order of first appearance (Map insertion order)
RECURSIVE PidOrder(_, _)
PidOrder(items, seen) ==
    IF items = <<>> THEN <<>>
    ELSE IF Head(items).pid \in seen THEN PidOrder(Tail(items), seen)
    ELSE <<Head(items).pid>> \o PidOrder(Tail(items), seen \cup {Head(items).pid})

ActiveRows(items, p) ==
    Indices({i \in 1..Len(items) :
                items[i].pid = p /\ items[i].status # "canceled" /\ items[i].quantity > 0})

CanceledRows(items, p) ==
    Indices({i \in 1..Len(items) : items[i].pid = p /\ items[i].status = "canceled"})

RowQtyOfFirst(items, rows) == IF rows = <<>> THEN 0 ELSE items[rows[1]].quantity

RowQtySum(items, rows) == SumSeq([k \in 1..Len(rows) |-> items[rows[k]].quantity])

MapGroup(items, p) ==
    LET active == ActiveRows(items, p)
        canceled == CanceledRows(items, p)
        totalQty == RowQtySum(items, active)
        canceledTotal == RowQtySum(items, canceled)
    IN  (IF Len(active) > 0
         THEN <<OrderItem(p, totalQty, "original", Some(totalQty), SrvId(p), active)>>
         ELSE <<>>)
        \o
        (IF Len(canceled) > 0
         THEN <<OrderItem(p, 0, "removed", Some(canceledTotal), SrvRemovedId(p), canceled)>>
         ELSE <<>>)

MappedItems(items) ==
    LET pids == PidOrder(items, {})
    IN  Flatten([k \in 1..Len(pids) |-> MapGroup(items, pids[k])])

FinalMapped(items, suppress) ==
    IF suppress
    THEN SelectSeq(MappedItems(items), LAMBDA m : m.itemStatus # "removed")
    ELSE MappedItems(items)

OriginalsOf(lines) == SelectSeq(lines, LAMBDA m : m.itemStatus = "original")

----------------------------------------------------------------------------
(* computePending *)

ComputePending(items, submitted, billId) ==
    IF billId = NoBillId
    THEN Len(items) > 0
    ELSE
        LET added == \E i \in 1..Len(items) :
                        items[i].itemStatus = "addon" /\ items[i].quantity > 0
            Edited(orig) ==
                LET cur == FindIndex({x \in 1..Len(items) : items[x].pid = orig.pid /\ IsOriginal(items[x])})
                    rem == FindIndex({x \in 1..Len(items) : items[x].pid = orig.pid /\ items[x].itemStatus = "removed"})
                IN  IF rem # 0 THEN TRUE
                    ELSE IF cur = 0 THEN TRUE
                    ELSE items[cur].quantity # orig.quantity
            editedOriginals == \E k \in 1..Len(submitted) : Edited(submitted[k])
        IN  added \/ editedOriginals

----------------------------------------------------------------------------
(* handleAddToOrder *)

AddToOrderInPlace(items, billId, p) ==
    LET existing == FindIndex({x \in 1..Len(items) : items[x].pid = p /\ items[x].itemStatus # "removed"})
    IN  IF existing # 0
        THEN [i \in 1..Len(items) |->
                IF items[i].pid = p THEN [items[i] EXCEPT !.quantity = @ + 1] ELSE items[i]]
        ELSE Append(items, OrderItem(p, 1, IF billId # NoBillId THEN "addon" ELSE "none",
                                     Undefined, LocalId(Fresh(items)), <<>>))

AddToOrder(items, billId, p) ==
    LET existing == FindIndex({x \in 1..Len(items) : items[x].pid = p /\ items[x].itemStatus # "removed"})
        addon == FindIndex({x \in 1..Len(items) : items[x].pid = p /\ items[x].itemStatus = "addon"})
    IN  IF existing # 0
        THEN IF items[existing].itemStatus = "removed"
             THEN [i \in 1..Len(items) |->
                     IF items[i].pid = p
                     THEN [items[i] EXCEPT !.quantity = 1, !.itemStatus = "addon",
                                           !.originalQuantity = Undefined]
                     ELSE items[i]]
             ELSE IF billId # NoBillId /\ items[existing].itemStatus = "original"
             THEN IF addon # 0
                  THEN [i \in 1..Len(items) |->
                          IF items[i].pid = p /\ items[i].itemStatus = "addon"
                          THEN [items[i] EXCEPT !.quantity = @ + 1]
                          ELSE items[i]]
                  ELSE Append(items, OrderItem(p, 1, "addon", Undefined, NoLocalId, <<>>))
             ELSE [i \in 1..Len(items) |->
                     IF items[i].pid = p
                     THEN [items[i] EXCEPT !.quantity = @ + 1]
                     ELSE items[i]]
        ELSE Append(items, OrderItem(p, 1, IF billId # NoBillId THEN "addon" ELSE "none",
                                     Undefined, LocalId(Fresh(items)), <<>>))

(* handleIncrementQuantity *)

IncrementQuantity(items, billId, lid) ==
    LET idx == FindIndex({x \in 1..Len(items) : items[x].localId = lid})
        target == items[idx]
        addonIdx == FindIndex({x \in 1..Len(items) : items[x].pid = target.pid /\ items[x].itemStatus = "addon"})
    IN  IF idx = 0 THEN items
        ELSE IF billId # NoBillId /\ IsOriginal(target)
        THEN IF addonIdx # 0
             THEN [items EXCEPT ![addonIdx].quantity = @ + 1]
             ELSE Append(items, OrderItem(target.pid, 1, "addon", Undefined,
                                          LocalId(Fresh(items)), <<>>))
        ELSE [items EXCEPT ![idx].quantity = @ + 1]

(* handleDecrementQuantity *)


NewQuantityUnclamped(q) == q - 1

NewQuantity(q) == Max(0, q - 1)

\* a decrement that leaves a line of quantity 0 in the draft
DecrementKeepingLine(items, submitted, billId, lid) ==
    LET idx == FindIndex({x \in 1..Len(items) : items[x].localId = lid})
    IN  IF idx = 0 THEN items
        ELSE [items EXCEPT ![idx].quantity = NewQuantity(items[idx].quantity)]

\* a decrement that counts a removed unit at every tap, at quantity 0 too
DecrementCountingEveryTap(items, submitted, billId, lid) ==
    LET idx == FindIndex({x \in 1..Len(items) : items[x].localId = lid})
        target == items[idx]
        newQuantity == NewQuantity(target.quantity)
        prevQty == target.quantity
        removedDelta == 1
        newItems == [items EXCEPT ![idx].quantity = newQuantity]
        removedIdx == FindIndex({x \in 1..Len(newItems) : newItems[x].pid = target.pid /\ newItems[x].itemStatus = "removed"})
        origSubmitted == FindIndex({x \in 1..Len(submitted) : submitted[x].pid = target.pid})
        originalTotal ==
            IF origSubmitted # 0 THEN submitted[origSubmitted].quantity
            ELSE prevQty + (IF removedIdx # 0 THEN newItems[removedIdx].quantity ELSE 0)
    IN  IF idx = 0 THEN items
        ELSE IF IsOriginal(target) /\ billId # NoBillId
        THEN IF removedIdx # 0
             THEN [newItems EXCEPT ![removedIdx].quantity = @ + removedDelta,
                                   ![removedIdx].originalQuantity = Some(originalTotal)]
             ELSE Append(newItems, OrderItem(target.pid, removedDelta, "removed",
                                             Some(originalTotal),
                                             RemovedId(target.pid, Fresh(items)), <<>>))
        ELSE IF newQuantity <= 0
        THEN RemoveAt(items, idx)
        ELSE newItems

DecrementQuantity(items, submitted, billId, lid) ==
    LET idx == FindIndex({x \in 1..Len(items) : items[x].localId = lid})
        target == items[idx]
        newQuantity == NewQuantity(target.quantity)
        prevQty == target.quantity
        removedDelta == prevQty - newQuantity
        newItems == [items EXCEPT ![idx].quantity = newQuantity]
        removedIdx == FindIndex({x \in 1..Len(newItems) : newItems[x].pid = target.pid /\ newItems[x].itemStatus = "removed"})
        origSubmitted == FindIndex({x \in 1..Len(submitted) : submitted[x].pid = target.pid})
        originalTotal ==
            IF origSubmitted # 0 THEN submitted[origSubmitted].quantity
            ELSE prevQty + (IF removedIdx # 0 THEN newItems[removedIdx].quantity ELSE 0)
    IN  IF idx = 0 THEN items
        ELSE IF IsOriginal(target) /\ billId # NoBillId
        THEN IF removedIdx # 0
             THEN [newItems EXCEPT ![removedIdx].quantity = @ + removedDelta,
                                   ![removedIdx].originalQuantity = Some(originalTotal)]
             ELSE Append(newItems, OrderItem(target.pid, removedDelta, "removed",
                                             Some(originalTotal),
                                             RemovedId(target.pid, Fresh(items)), <<>>))
        ELSE IF newQuantity <= 0
        THEN RemoveAt(items, idx)
        ELSE newItems

(* the restore button of a removed line *)

RestoreRemoved(items, i) ==
    [k \in 1..Len(items) |->
        IF items[k].localId = items[i].localId
        THEN [items[k] EXCEPT !.quantity = OrOne(items[i].originalQuantity),
                              !.itemStatus = "original",
                              !.originalQuantity = Undefined]
        ELSE items[k]]

(* the - and + buttons of a row: the localId they hand to the handler *)

ButtonLocalId(items, i) ==
    LET item == items[i]
        same == FindIndex({x \in 1..Len(items) :
                    /\ items[x].pid = item.pid
                    /\ IF item.itemStatus = "addon"
                       THEN items[x].itemStatus = "addon"
                       ELSE IsOriginal(items[x])})
    IN  IF item.localId # NoLocalId THEN item.localId ELSE items[same].localId

\* the rows that carry - and + buttons
HasQuantityButtons(it) == IsOriginal(it) \/ (it.itemStatus = "addon" /\ it.quantity > 0)

----------------------------------------------------------------------------
(* updateKOT: the diff of the draft against the refetched bill *)

AddedItems(items) ==
    LET addons == SelectSeq(items, LAMBDA it : it.itemStatus = "addon" /\ it.quantity > 0)
    IN  [k \in 1..Len(addons) |-> [pid |-> addons[k].pid, quantity |-> addons[k].quantity]]

\* desiredByProduct after the first i lines of the draft were visited
RECURSIVE DesiredByProduct(_, _, _)
DesiredByProduct(items, submitted, i) ==
    IF i = 0 THEN [p \in Products |-> Undefined]
    ELSE
        LET before == DesiredByProduct(items, submitted, i - 1)
            oi == items[i]
            orig == FindIndex({x \in 1..Len(items) : items[x].pid = oi.pid /\ IsOriginal(items[x])})
            sub == FindIndex({x \in 1..Len(submitted) : submitted[x].pid = oi.pid})
            remaining == Max(0, (IF sub # 0 THEN submitted[sub].quantity ELSE 0) - oi.quantity)
        IN  IF IsOriginal(oi)
            THEN [before EXCEPT ![oi.pid] = Some(oi.quantity)]
            ELSE IF oi.itemStatus = "removed"
            THEN IF orig # 0
                 THEN [before EXCEPT ![oi.pid] = Some(items[orig].quantity)]
                 ELSE [before EXCEPT ![oi.pid] = Some(remaining)]
            ELSE before

\* a distribution that gives a row all that is left
AssignRemaining(origQty, remaining) == remaining

Assign(origQty, remaining) == Min(origQty, remaining)

\* the loop over the active server rows of one product
RECURSIVE Distribute(_, _, _)
Distribute(rows, serverItems, remaining) ==
    IF rows = <<>> THEN <<>>
    ELSE
        LET origQty == serverItems[Head(rows)].quantity
            assign == Assign(origQty, remaining)
        IN  (IF assign # origQty
             THEN <<[itemId |-> Head(rows), newQuantity |-> assign,
                     changeType |-> IF assign = 0 THEN "canceled" ELSE "edit"]>>
             ELSE <<>>)
            \o Distribute(Tail(rows), serverItems, Max(0, remaining - assign))

EditedItemsAllRows(serverItems, desired) ==
    LET pids == PidOrder(serverItems, {})
        AllRows(p) ==
            Indices({i \in 1..Len(serverItems) : serverItems[i].pid = p})
    IN  Flatten([k \in 1..Len(pids) |->
            IF desired[pids[k]] = Undefined THEN <<>>
            ELSE Distribute(AllRows(pids[k]), serverItems, OrZero(desired[pids[k]]))])

EditedItems(serverItems, desired) ==
    LET pids == PidOrder(serverItems, {})
        NotCanceled(p) ==
            Indices({i \in 1..Len(serverItems) :
                        serverItems[i].pid = p /\ serverItems[i].status # "canceled"})
    IN  Flatten([k \in 1..Len(pids) |->
            IF desired[pids[k]] = Undefined THEN <<>>
            ELSE Distribute(NotCanceled(pids[k]), serverItems, OrZero(desired[pids[k]]))])

\* a processing that keeps of the updates of an edited row only the new record
ProcessedItemsRewritten(serverItems, edits) ==
    [i \in 1..Len(serverItems) |->
        LET e == FindIndex({x \in 1..Len(edits) : edits[x].itemId = i})
            newUpdate == Update(edits[e].changeType,
                                Abs(edits[e].newQuantity - serverItems[i].quantity))
            updated == IF e # 0
                       THEN [serverItems[i] EXCEPT
                                !.quantity = edits[e].newQuantity,
                                !.updates = <<newUpdate>>,
                                !.status = IF edits[e].changeType = "canceled"
                                           THEN "canceled" ELSE "active"]
                       ELSE serverItems[i]
        IN  IF updated.status = "canceled" THEN [updated EXCEPT !.quantity = 0] ELSE updated]

ProcessedItems(serverItems, edits) ==
    [i \in 1..Len(serverItems) |->
        LET e == FindIndex({x \in 1..Len(edits) : edits[x].itemId = i})
            newUpdate == Update(edits[e].changeType,
                                Abs(edits[e].newQuantity - serverItems[i].quantity))
            updated == IF e # 0
                       THEN [serverItems[i] EXCEPT
                                !.quantity = edits[e].newQuantity,
                                !.updates = Append(@, newUpdate),
                                !.status = IF edits[e].changeType = "canceled"
                                           THEN "canceled" ELSE "active"]
                       ELSE serverItems[i]
        IN  IF updated.status = "canceled" THEN [updated EXCEPT !.quantity = 0] ELSE updated]

NewItemsFormatted(added) ==
    [k \in 1..Len(added) |->
        [Row(added[k].pid, added[k].quantity, "active")
            EXCEPT !.updates = <<Update("add", added[k].quantity)>>]]

\* an update that always keeps the status of the bill
StatusKept(isCompleteOrder, currentBill) == currentBill.status

\* status: isCompleteOrder ? 'bill-printed' : currentBill.status
StatusOfUpdate(isCompleteOrder, currentBill) ==
    IF isCompleteOrder THEN "bill-printed" ELSE currentBill.status

UpdateData(items, submitted, billId, currentBill) ==
    LET added == AddedItems(items)
        edits == EditedItems(currentBill.items, DesiredByProduct(items, submitted, Len(items)))
        isCompleteOrder == Len(added) = 0 /\ Len(edits) = 0
    IN  [id |-> billId, edits |-> edits, added |-> added,
         items |-> ProcessedItems(currentBill.items, edits) \o NewItemsFormatted(added),
         status |-> StatusOfUpdate(isCompleteOrder, currentBill)]

\* the local state after a 2xx answer to the update
UpdatedItems(items) ==
    SelectSeq([i \in 1..Len(items) |->
                  IF items[i].itemStatus = "addon"
                  THEN [items[i] EXCEPT !.itemStatus = "original"]
                  ELSE items[i]],
              LAMBDA it : it.itemStatus # "removed")

(* getTotalOrderCost *)

\* price ? Number(price) : 0, of a line of the product p
Price(p) == Decimal(OrZero(products[p]), Scale)

\* the units of the lines, whatever they cost
GetTotalOrderCostUnpriced(items) ==
    Num(SumSeq([i \in 1..Len(items) |->
                   IF items[i].itemStatus = "removed" THEN 0 ELSE items[i].quantity]))

\* reduce((total, item) => total + price * item.quantity, total) over the lines from the i-th on
RECURSIVE CostFrom(_, _, _)
CostFrom(items, i, total) ==
    IF i > Len(items) THEN total
    ELSE CostFrom(items, i + 1,
                  IF items[i].itemStatus = "removed" THEN total
                  ELSE Plus(total, Times(Price(items[i].pid), Num(items[i].quantity))))

\* the cost of all lines, the removed ones too
RECURSIVE CostOfAllFrom(_, _, _)
CostOfAllFrom(items, i, total) ==
    IF i > Len(items) THEN total
    ELSE CostOfAllFrom(items, i + 1,
                       Plus(total, Times(Price(items[i].pid), Num(items[i].quantity))))

GetTotalOrderCostOfAll(items) == CostOfAllFrom(items, 1, Zero)

GetTotalOrderCost(items) == CostFrom(items, 1, Zero)

(* computeTaxAmounts *)

ComputeTaxAmounts(subtotal, settings) ==
    LET sgstAmount == Over(Times(subtotal, Decimal(settings.sgst, Scale)), 100)
        cgstAmount == Over(Times(subtotal, Decimal(settings.cgst, Scale)), 100)
        totalWithTax == Plus(Plus(subtotal, sgstAmount), cgstAmount)
    IN  [sgstAmount |-> sgstAmount, cgstAmount |-> cgstAmount,
         totalWithTax |-> totalWithTax, payableAmount |-> Floor(totalWithTax)]

(* submitKOT, handleCompleteOrder *)

SanitizedItems(items) ==
    [i \in 1..Len(items) |-> [pid |-> items[i].pid, quantity |-> items[i].quantity]]

BillData(items, status, number) ==
    [status |-> status, items |-> SanitizedItems(items),
     totalAmount |-> GetTotalOrderCost(items), billNumber |-> Some(number)]

OriginalItems(items) ==
    [i \in 1..Len(items) |-> [items[i] EXCEPT !.itemStatus = "original"]]

----------------------------------------------------------------------------
(* The backend *)

\* the rows other terminals write, one unit each: active ones and canceled ones
OtherRows ==
    {Row(p, 1, st) : p \in Products, st \in {"active", "canceled"}}

RECURSIVE SeqsUpTo(_, _)
SeqsUpTo(S, n) ==
    IF n = 0 THEN {<<>>}
    ELSE SeqsUpTo(S, n - 1)
         \cup {Append(s, x) : s \in {t \in SeqsUpTo(S, n - 1) : Len(t) = n - 1}, x \in S}

\* the bills other terminals may have made of the table's bill; the product of
\* the first row is called p1
OtherBills ==
    {[exists |-> TRUE, id |-> OtherBillId, status |-> st, items |-> rows,
      billNumber |-> OtherBillNumber] :
        st \in OtherStatuses,
        rows \in {r \in SeqsUpTo(OtherRows, MaxRows) \ {<<>>} : r[1].pid = "p1"}}

\* the update records a row of the other terminals carries: the row was added
\* by an update when it holds more than a unit, and canceled by one
History(p, q, st) ==
    (IF q > 1 THEN <<Update("add", q)>> ELSE <<>>)
    \o (IF st = "canceled" THEN <<Update("canceled", q)>> ELSE <<>>)

\* the units of an active row the other terminals write
Quantities == {1, 2}

\* the rows other terminals write, with their records: active ones of one unit
\* and of more, and canceled ones
RowsWithHistory ==
    {[Row(p, q, "active") EXCEPT !.updates = History(p, q, "active")] :
        p \in Products, q \in Quantities}
    \cup {[r EXCEPT !.updates = History(r.pid, r.quantity, r.status)] :
            r \in {o \in OtherRows : o.status = "canceled"}}

\* the open bills the other terminals may have made of such rows
BillsWithHistory ==
    {[exists |-> TRUE, id |-> OtherBillId, status |-> "pending", items |-> rows,
      billNumber |-> OtherBillNumber] :
        rows \in {r \in SeqsUpTo(RowsWithHistory, MaxBillRows) \ {<<>>} : r[1].pid = "p1"}}

\* the bill a request finds: as the last request left it, or as the other
\* terminals have made it since
FoundBills(bill) == {bill, otherBill}

\* the answers POST /api/bill/getTableStatus may give; "unauthorized" is a 401,
\* "error" is no answer or another one that is not 2xx
TableStatusResponses(bill) ==
    {[kind |-> "error", bill |-> NoServerBill], [kind |-> "unauthorized", bill |-> NoServerBill]}
    \cup (IF bill.exists
          THEN {[kind |-> "success", bill |-> bill]}
               \cup (IF bill.status \in ActiveStatuses THEN {}
                     ELSE {[kind |-> "table-free", bill |-> NoServerBill]})
          ELSE {[kind |-> "table-free", bill |-> NoServerBill]})

\* PUT /api/bill/update
ServerUpdate(bill, payload) ==
    IF bill.exists /\ bill.id = payload.id
    THEN [bill EXCEPT !.items = payload.items, !.status = payload.status]
    ELSE bill

\* POST /api/bill/create
ServerCreate(id, billData) ==
    [exists |-> TRUE, id |-> id, status |-> billData.status,
     items |-> [i \in 1..Len(billData.items) |->
                   Row(billData.items[i].pid, billData.items[i].quantity, "active")],
     billNumber |-> billData.billNumber]

\* PUT /api/bill/updateStatus
ServerUpdateStatus(bill, statusData) ==
    IF bill.exists /\ bill.id = statusData.id
    THEN [bill EXCEPT !.status = statusData.status]
    ELSE bill

----------------------------------------------------------------------------
(* The state machine *)

\* the screen is opened for the table `table`, the other terminals having made
\* one of `bills` of the table's bill
OpenedWith(table, bills) ==
    /\ orderItems = <<>>
    /\ originalSubmittedItems = <<>>
    /\ existingBillId = NoBillId
    /\ hasPendingChanges = FALSE
    /\ loading = FALSE                 \* fetchProducts has delivered the products
    /\ loadingLastOrder = FALSE
    /\ suppressRemovedAfterFetch = FALSE
    /\ fetchSuppress = FALSE
    /\ categories = FALSE
    /\ syncs = {}
    /\ op = NoOp
    /\ serverBill = NoServerBill
    /\ otherBill \in bills
    /\ taps = 0
    /\ tableNumber = table
    /\ billNumber = Undefined
    /\ sequenceNumber = 0
    /\ alert = NoAlert
    /\ serverNumber = 1
    /\ taxSettings = NoTax
    /\ token = TRUE
    /\ route = OrderScreen
    /\ other = NoOther

Opened(table) == OpenedWith(table, OtherBills)

Init == Opened(ThisTable) /\ products = Catalogue

\* the effect that recomputes hasPendingChanges after every change of the draft
PendingEffect ==
    hasPendingChanges' = ComputePending(orderItems', originalSubmittedItems', existingBillId')

SyncRequest(owner, resp, suppress) == [owner |-> owner, resp |-> resp, suppress |-> suppress]

(* A request for the table status reaches the backend *)

\* the request finds the bill `found` and is answered with `resp`; a bill that is
\* not handed out as the bill of the table is from then on as good as no bill
TableStatus(found, resp) ==
    /\ found \in FoundBills(serverBill)
    /\ resp \in TableStatusResponses(found)
    /\ serverBill' = IF resp.kind = "success" THEN found
                     ELSE IF resp.kind = "table-free" THEN NoServerBill
                     ELSE serverBill

(* fetchLastOrder *)

\* the draft, the submitted originals, the bill id and the suppress flag after an answer
SyncedState(r, items, submitted, suppress) ==
    IF r.resp.kind = "success"
    THEN LET finalMapped == FinalMapped(r.resp.bill.items, r.suppress)
         IN  [orderItems |-> finalMapped,
              originalSubmittedItems |-> OriginalsOf(finalMapped),
              existingBillId |-> r.resp.bill.id,
              suppress |-> IF r.suppress THEN FALSE ELSE suppress]
    ELSE IF r.resp.kind = "table-free"
    THEN [orderItems |-> items, originalSubmittedItems |-> submitted,
          existingBillId |-> NoBillId, suppress |-> suppress]
    ELSE [orderItems |-> <<>>, originalSubmittedItems |-> <<>>,
          existingBillId |-> NoBillId, suppress |-> suppress]

\* what fetchLastOrder does with the answer r
ApplyAnswer(r) ==
    LET after == SyncedState(r, orderItems, originalSubmittedItems, suppressRemovedAfterFetch)
    IN  /\ orderItems' = after.orderItems
        /\ originalSubmittedItems' = after.originalSubmittedItems
        /\ existingBillId' = after.existingBillId
        /\ suppressRemovedAfterFetch' = after.suppress
        /\ billNumber' = IF r.resp.kind = "success" THEN r.resp.bill.billNumber ELSE billNumber
        /\ loadingLastOrder' = FALSE
        /\ token' = IF r.resp.kind = "unauthorized" THEN FALSE ELSE token
        /\ route' = IF r.resp.kind = "unauthorized" THEN LoginScreen ELSE route
        /\ UNCHANGED <<sequenceNumber, serverNumber, tableNumber, products, taxSettings, other>>
        /\ PendingEffect

\* useFocusEffect: the screen gets the focus, with no dialog up any more, and the
\* table status is fetched; the request finds the bill `found` and is answered
\* with `resp`
FetchLastOrderOf(found, resp) ==
    /\ OnScreen
    /\ tableNumber # NoTable
    /\ TableStatus(found, resp)
    /\ ApplyAnswer(SyncRequest("focus", resp, fetchSuppress))
    /\ alert' = NoAlert
    /\ UNCHANGED <<loading, fetchSuppress, categories, syncs, op, otherBill, taps>>

FetchLastOrder ==
    \E found \in FoundBills(serverBill) : \E resp \in TableStatusResponses(found) :
        FetchLastOrderOf(found, resp)

\* useFocusEffect, with the answer still to come: the request finds the bill
\* `found` and its answer `resp` sets out
FetchLastOrderSent ==
    /\ OnScreen
    /\ tableNumber # NoTable
    /\ \A r \in syncs : r.owner # "focus"
    /\ \E found \in FoundBills(serverBill) : \E resp \in TableStatusResponses(found) :
          /\ TableStatus(found, resp)
          /\ syncs' = syncs \cup {SyncRequest("focus", resp, fetchSuppress)}
    /\ loadingLastOrder' = TRUE
    /\ UNCHANGED <<orderItems, originalSubmittedItems, existingBillId, hasPendingChanges,
                   loading, suppressRemovedAfterFetch, fetchSuppress, categories, op,
                   otherBill, taps, tableNumber, products, taxSettings, token, route, other, billNumber, sequenceNumber, alert,
                   serverNumber>>

\* fetchCategories delivers: the categories change, fetchLastOrder is made anew and
\* the effect that depends on it calls it
CategoriesAnswerOf(found, resp) ==
    /\ OnScreen
    /\ ~categories
    /\ categories' = TRUE
    /\ fetchSuppress' = suppressRemovedAfterFetch
    /\ IF tableNumber = NoTable
       THEN UNCHANGED <<orderItems, originalSubmittedItems, existingBillId, hasPendingChanges,
                        suppressRemovedAfterFetch, billNumber, loadingLastOrder, sequenceNumber,
                        serverNumber, tableNumber, products, taxSettings, token, route, other, serverBill>>
       ELSE /\ TableStatus(found, resp)
            /\ ApplyAnswer(SyncRequest("focus", resp, suppressRemovedAfterFetch))
    /\ UNCHANGED <<loading, syncs, op, otherBill, taps, alert>>

CategoriesAnswer ==
    \E found \in FoundBills(serverBill) : \E resp \in TableStatusResponses(found) :
        CategoriesAnswerOf(found, resp)

\* the answer to a fetchLastOrder whose request is on its way arrives
FetchLastOrderAnswer(r) ==
    /\ r \in syncs
    /\ syncs' = syncs \ {r}
    /\ ApplyAnswer(r)
    /\ IF r.owner = "op"
       THEN loading' = FALSE /\ op' = NoOp
       ELSE UNCHANGED <<loading, op>>
    /\ UNCHANGED <<fetchSuppress, categories, serverBill, otherBill, taps, alert>>

(* Alert.alert *)

\* a dialog is modal.  The one with a single button is closed by the user before
\* the next tap, and the tap is modelled with the closing; the one that asks has
\* its buttons pressed first.
NoDialog == alert \notin {"Clear Order", "Cancel Order"}

\* a handler that resets the bill number on its way out of a guard
RejectedWithReset(title) ==
    /\ alert' = title
    /\ billNumber' = Undefined
    /\ sequenceNumber' = 0
    /\ UNCHANGED <<orderItems, originalSubmittedItems, existingBillId, hasPendingChanges,
                   loading, loadingLastOrder, suppressRemovedAfterFetch, fetchSuppress,
                   categories, syncs, op, serverBill, otherBill, taps,
                   tableNumber, products, taxSettings, token, route, other, serverNumber>>

\* a handler returns from one of its guards with an alert
Rejected(title) ==
    /\ alert' = title
    /\ UNCHANGED <<orderItems, originalSubmittedItems, existingBillId, hasPendingChanges,
                   loading, loadingLastOrder, suppressRemovedAfterFetch, fetchSuppress,
                   categories, syncs, op, serverBill, otherBill, taps,
                   tableNumber, products, taxSettings, token, route, other, billNumber, sequenceNumber, serverNumber>>

(* The taps that edit the draft *)

EditFrame ==
    /\ OnScreen
    /\ NoDialog
    /\ taps < MaxTaps
    /\ taps' = taps + 1
    /\ UNCHANGED <<originalSubmittedItems, existingBillId, loading, loadingLastOrder,
                   suppressRemovedAfterFetch, fetchSuppress, categories, syncs,
                   op, serverBill, otherBill,
                   tableNumber, products, taxSettings, token, route, other, billNumber, sequenceNumber, serverNumber>>
    /\ alert' = NoAlert
    /\ PendingEffect

\* a product card is tapped
HandleAddToOrder(p) ==
    /\ categories /\ ~loading
    /\ ~(loadingLastOrder /\ Len(orderItems) = 0)
    /\ orderItems' = AddToOrder(orderItems, existingBillId, p)
    /\ EditFrame

HandleIncrementQuantity(i) ==
    /\ i \in 1..Len(orderItems)
    /\ HasQuantityButtons(orderItems[i])
    /\ ButtonLocalId(orderItems, i) # NoLocalId
    /\ orderItems' = IncrementQuantity(orderItems, existingBillId, ButtonLocalId(orderItems, i))
    /\ EditFrame

HandleDecrementQuantity(i) ==
    /\ i \in 1..Len(orderItems)
    /\ HasQuantityButtons(orderItems[i])
    /\ ButtonLocalId(orderItems, i) # NoLocalId
    /\ orderItems' = DecrementQuantity(orderItems, originalSubmittedItems, existingBillId,
                                       ButtonLocalId(orderItems, i))
    /\ EditFrame

HandleRestore(i) ==
    /\ i \in 1..Len(orderItems)
    /\ orderItems[i].itemStatus = "removed"
    /\ orderItems' = RestoreRemoved(orderItems, i)
    /\ EditFrame

(* The operations on the bill *)

\* what the step of an operation that only sends or awaits leaves alone
OpFrame ==
    UNCHANGED <<orderItems, originalSubmittedItems, existingBillId, hasPendingChanges,
                loadingLastOrder, suppressRemovedAfterFetch, fetchSuppress, categories,
                syncs, otherBill, tableNumber, products, taxSettings, token, route, other>>

\* the closure of a handler holds the state of the render in which its button
\* was pressed
Closure(kind, step, request) ==
    [NoOp EXCEPT !.kind = kind, !.step = step,
                 !.items = orderItems, !.submitted = originalSubmittedItems,
                 !.billId = existingBillId, !.fsup = fetchSuppress, !.sent = request]

\* a tap that edits the draft or sends a bill counts
Tapped == taps < MaxTaps /\ taps' = taps + 1

\* setters that empty the draft and keep the bill
DraftCleared ==
    /\ orderItems' = <<>>
    /\ originalSubmittedItems' = <<>>
    /\ UNCHANGED <<billNumber, sequenceNumber, existingBillId>>

\* the state setters after a 2xx answer to Cancel and to Complete
OrderCleared ==
    /\ orderItems' = <<>>
    /\ originalSubmittedItems' = <<>>
    /\ billNumber' = Undefined
    /\ sequenceNumber' = 0
    /\ existingBillId' = NoBillId

(* fetchBillNumber, updateBillNumber *)

\* fetchBillNumber is answered
FetchBillNumber(fetched) ==
    IF fetched
    THEN billNumber' = Some(serverNumber) /\ sequenceNumber' = serverNumber
    ELSE UNCHANGED <<billNumber, sequenceNumber>>

\* updateBillNumber(seq) is through: the PUT failed, or it went through and the
\* refetch of the number failed, or both went through
UpdateBillNumberOutcomes == {"failed", "advanced", "refreshed"}

ServerNumberAfter(outcome, seq) == IF outcome = "failed" THEN serverNumber ELSE seq + 1

(* updateKOT *)

\* the Update KOT button is pressed: the bill is refetched
UpdateKOT ==
    /\ OnScreen
    /\ NoDialog
    /\ IF tableNumber = NoTable
       THEN Rejected("Select Table")
       ELSE IF existingBillId = NoBillId
       THEN Rejected("No existing order found")
       ELSE /\ loading' = TRUE
            /\ \E found \in FoundBills(serverBill) : \E resp \in TableStatusResponses(found) :
                  /\ TableStatus(found, resp)
                  /\ op' = [Closure("update", "refetch", <<"getTableStatus">>)
                               EXCEPT !.resp = resp]
            /\ Tapped
            /\ alert' = NoAlert
            /\ UNCHANGED <<billNumber, sequenceNumber, serverNumber>>
            /\ OpFrame

\* the refetch is answered: the diff is computed and PUT /api/bill/update goes out
UpdateKOTRefetched ==
    /\ op.kind = "update" /\ op.step = "refetch"
    /\ IF op.resp.kind # "success"
       THEN /\ loading' = FALSE
            /\ op' = NoOp
            /\ alert' = "Failed to update KOT"
            /\ UNCHANGED serverBill
       ELSE LET updateData == UpdateData(op.items, op.submitted, op.billId, op.resp.bill)
                \* the backend takes an update that adds no row, and one that stays within MaxRows
                room == Max(MaxRows, Len(op.resp.bill.items))
            IN  /\ \E ok \in (IF Len(updateData.items) <= room THEN {TRUE, FALSE} ELSE {FALSE}) :
                     /\ op' = [op EXCEPT !.step = "put", !.payload = updateData, !.ok = ok,
                                         !.sent = Append(@, "update")]
                     /\ serverBill' = IF ok THEN ServerUpdate(serverBill, updateData)
                                      ELSE serverBill
                /\ UNCHANGED <<loading, alert>>
    /\ UNCHANGED <<taps, billNumber, sequenceNumber, serverNumber>>
    /\ OpFrame

\* the update is answered
UpdateKOTAnswer ==
    /\ op.kind = "update" /\ op.step = "put"
    /\ IF op.ok
       THEN /\ orderItems' = UpdatedItems(op.items)
            /\ originalSubmittedItems' = SelectSeq(UpdatedItems(op.items), IsOriginal)
            /\ suppressRemovedAfterFetch' = TRUE
            /\ alert' = "Success"
            /\ \E resp \in TableStatusResponses(serverBill) :
                  syncs' = syncs \cup {SyncRequest("op", resp, op.fsup)}
            /\ loadingLastOrder' = TRUE
            /\ op' = [op EXCEPT !.step = "resync", !.sent = Append(@, "getTableStatus")]
            /\ UNCHANGED loading
       ELSE /\ loading' = FALSE
            /\ op' = NoOp
            /\ alert' = "Failed to update KOT"
            /\ UNCHANGED <<orderItems, originalSubmittedItems, suppressRemovedAfterFetch,
                           syncs, loadingLastOrder>>
    /\ UNCHANGED <<existingBillId, fetchSuppress, categories, serverBill, otherBill, taps,
                   tableNumber, products, taxSettings, token, route, other, billNumber, sequenceNumber, serverNumber>>
    /\ PendingEffect

(* submitKOT *)

\* the Submit to KOT button is pressed: the bill number is fetched
SubmitKOT ==
    /\ OnScreen
    /\ NoDialog
    /\ IF tableNumber = NoTable
       THEN Rejected("Select Table")
       ELSE IF Len(orderItems) = 0
       THEN Rejected("Empty Order")
       ELSE /\ op' = Closure("submit", "billno", <<"getBillNumber">>)
            /\ Tapped
            /\ loading' = TRUE
            /\ alert' = NoAlert
            /\ UNCHANGED <<serverBill, billNumber, sequenceNumber, serverNumber>>
            /\ OpFrame

\* fetchBillNumber is answered: POST /api/bill/create goes out
SubmitKOTBillNumber(fetched) ==
    /\ op.kind = "submit" /\ op.step = "billno"
    /\ FetchBillNumber(fetched)
    /\ IF ~fetched
       THEN /\ loading' = FALSE
            /\ op' = NoOp
            /\ alert' = "Failed to fetch bill number"
            /\ UNCHANGED serverBill
       ELSE IF op.billId # NoBillId
       THEN /\ loading' = FALSE
            /\ op' = NoOp
            /\ alert' = "An order already exists"
            /\ UNCHANGED serverBill
       ELSE LET billData == BillData(op.items, "pending", serverNumber)
            IN  /\ \E ok \in (IF Len(op.items) <= MaxRows THEN {TRUE, FALSE} ELSE {FALSE}) :
                     /\ op' = [op EXCEPT !.step = "create", !.create = billData, !.ok = ok,
                                         !.fetched = serverNumber, !.sent = Append(@, "create")]
                     /\ serverBill' = IF ok THEN ServerCreate(OwnBillId, billData) ELSE serverBill
                /\ UNCHANGED <<loading, alert>>
    /\ UNCHANGED <<taps, serverNumber>>
    /\ OpFrame

\* a create whose failure leaves the indicator on
SubmitKOTCreatedNoFinally ==
    /\ op.kind = "submit" /\ op.step = "create"
    /\ IF op.ok
       THEN /\ op' = [op EXCEPT !.step = "advance", !.sent = Append(@, "updateBillNumber")]
            /\ alert' = "Success"
       ELSE /\ op' = NoOp
            /\ alert' = "Failed to create bill"
    /\ UNCHANGED <<loading, serverBill, taps, billNumber, sequenceNumber, serverNumber>>
    /\ OpFrame

\* the create is answered: updateBillNumber goes out
SubmitKOTCreated ==
    /\ op.kind = "submit" /\ op.step = "create"
    /\ IF op.ok
       THEN /\ op' = [op EXCEPT !.step = "advance", !.sent = Append(@, "updateBillNumber")]
            /\ alert' = "Success"
            /\ UNCHANGED loading
       ELSE /\ op' = NoOp
            /\ alert' = "Failed to create bill"
            /\ loading' = FALSE
    /\ UNCHANGED <<serverBill, taps, billNumber, sequenceNumber, serverNumber>>
    /\ OpFrame

\* updateBillNumber is through: the lines become originals and the order is refetched
SubmitKOTAdvanced(outcome) ==
    /\ op.kind = "submit" /\ op.step = "advance"
    /\ serverNumber' = ServerNumberAfter(outcome, op.fetched)
    /\ billNumber' = IF outcome = "refreshed" THEN Some(op.fetched + 1) ELSE billNumber
    /\ sequenceNumber' = IF outcome = "failed" THEN sequenceNumber ELSE op.fetched + 1
    /\ orderItems' = OriginalItems(op.items)
    /\ originalSubmittedItems' = OriginalItems(op.items)
    /\ \E resp \in TableStatusResponses(serverBill) :
          syncs' = syncs \cup {SyncRequest("op", resp, op.fsup)}
    /\ loadingLastOrder' = TRUE
    /\ op' = [op EXCEPT !.step = "resync", !.sent = Append(@, "getTableStatus")]
    /\ UNCHANGED <<existingBillId, loading, suppressRemovedAfterFetch, fetchSuppress,
                   categories, serverBill, otherBill, taps, tableNumber, products, taxSettings, token, route, other, alert>>
    /\ PendingEffect

(* handleClearOrder *)

\* the dialog of handleClearOrder goes up; its Clear button holds the bill id of
\* the render in which the handler ran
ClearDialog ==
    /\ alert' = "Clear Order"
    /\ op' = Closure("clear", "dialog", <<>>)
    /\ UNCHANGED <<loading, serverBill, billNumber, sequenceNumber, serverNumber, taps>>
    /\ OpFrame

\* the Clear Order button is pressed
HandleClearOrder ==
    /\ OnScreen
    /\ NoDialog
    /\ ClearDialog

\* the button that leaves things as they are is pressed: Cancel in the dialog of
\* handleClearOrder, No in the dialog of handleCancelOrder
DialogDeclined ==
    /\ op.step = "dialog"
    /\ alert' = NoAlert
    /\ op' = NoOp
    /\ UNCHANGED <<loading, serverBill, billNumber, sequenceNumber, serverNumber, taps>>
    /\ OpFrame

\* a Clear that keeps the bill number it finds
ClearConfirmedKeepingNumber ==
    /\ op.kind = "clear" /\ op.step = "dialog"
    /\ alert' = NoAlert
    /\ op' = NoOp
    /\ orderItems' = <<>>
    /\ originalSubmittedItems' = <<>>
    /\ UNCHANGED <<billNumber, sequenceNumber>>
    /\ UNCHANGED <<existingBillId, loading, loadingLastOrder, suppressRemovedAfterFetch,
                   fetchSuppress, categories, syncs, serverBill, otherBill, taps,
                   tableNumber, products, taxSettings, token, route, other, serverNumber>>
    /\ PendingEffect

\* Clear is pressed in the dialog
ClearConfirmed ==
    /\ op.kind = "clear" /\ op.step = "dialog"
    /\ alert' = NoAlert
    /\ op' = NoOp
    /\ orderItems' = <<>>
    /\ originalSubmittedItems' = <<>>
    /\ IF op.billId = NoBillId
       THEN billNumber' = Undefined /\ sequenceNumber' = 0
       ELSE UNCHANGED <<billNumber, sequenceNumber>>
    /\ UNCHANGED <<existingBillId, loading, loadingLastOrder, suppressRemovedAfterFetch,
                   fetchSuppress, categories, syncs, serverBill, otherBill, taps,
                   tableNumber, products, taxSettings, token, route, other, serverNumber>>
    /\ PendingEffect

(* handleCancelOrder *)

\* the Cancel Order button is pressed
HandleCancelOrder ==
    /\ OnScreen
    /\ NoDialog
    /\ IF existingBillId = NoBillId
       THEN ClearDialog
       ELSE /\ alert' = "Cancel Order"
            /\ op' = Closure("cancel", "dialog", <<>>)
            /\ UNCHANGED <<loading, serverBill, billNumber, sequenceNumber, serverNumber, taps>>
            /\ OpFrame

\* Yes, Cancel is pressed in the dialog: PUT /api/bill/updateStatus goes out
CancelConfirmed ==
    /\ op.kind = "cancel" /\ op.step = "dialog"
    /\ alert' = NoAlert
    /\ loading' = TRUE
    /\ op' = [op EXCEPT !.step = "status", !.status = StatusData(op.billId, "cancelled"),
                        !.sent = <<"updateStatus">>]
    /\ UNCHANGED <<serverBill, billNumber, sequenceNumber, serverNumber, taps>>
    /\ OpFrame

\* a cancel that clears the order whatever the answer
CancelAnswerOptimistic(ok) ==
    /\ op.kind = "cancel" /\ op.step = "status"
    /\ serverBill' = IF ok THEN ServerUpdateStatus(serverBill, op.status) ELSE serverBill
    /\ alert' = IF ok THEN "Success" ELSE "Failed to cancel order"
    /\ OrderCleared
    /\ loading' = FALSE
    /\ op' = NoOp
    /\ UNCHANGED <<loadingLastOrder, suppressRemovedAfterFetch, fetchSuppress, categories,
                   syncs, otherBill, taps, tableNumber, products, taxSettings, token, route, other, serverNumber>>
    /\ PendingEffect

\* the backend changes the status and answers 2xx (ok), or the request fails
CancelAnswer(ok) ==
    /\ op.kind = "cancel" /\ op.step = "status"
    /\ IF ok
       THEN /\ serverBill' = ServerUpdateStatus(serverBill, op.status)
            /\ alert' = "Success"
            /\ OrderCleared
       ELSE /\ alert' = "Failed to cancel order"
            /\ UNCHANGED <<serverBill, orderItems, originalSubmittedItems, billNumber,
                           sequenceNumber, existingBillId>>
    /\ loading' = FALSE
    /\ op' = NoOp
    /\ UNCHANGED <<loadingLastOrder, suppressRemovedAfterFetch, fetchSuppress, categories,
                   syncs, otherBill, taps, tableNumber, products, taxSettings, token, route, other, serverNumber>>
    /\ PendingEffect

(* handleCompleteOrder *)

\* the Complete Order button is pressed: the status of the bill is changed, or,
\* with no bill, the bill number is fetched
HandleCompleteOrder ==
    /\ OnScreen
    /\ NoDialog
    /\ IF tableNumber = NoTable
       THEN Rejected("Select Table")
       ELSE IF Len(orderItems) = 0
       THEN Rejected("Empty Order")
       ELSE /\ loading' = TRUE
            /\ Tapped
            /\ op' = IF existingBillId # NoBillId
                     THEN [Closure("complete", "status", <<"updateStatus">>)
                           EXCEPT !.status = StatusData(existingBillId, "completed")]
                     ELSE Closure("complete", "billno", <<"getBillNumber">>)
            /\ alert' = NoAlert
            /\ UNCHANGED <<serverBill, billNumber, sequenceNumber, serverNumber>>
            /\ OpFrame

\* the backend changes the status and answers 2xx (ok), or the request fails
CompleteStatusAnswer(ok) ==
    /\ op.kind = "complete" /\ op.step = "status"
    /\ IF ok
       THEN /\ serverBill' = ServerUpdateStatus(serverBill, op.status)
            /\ alert' = "Success"
            /\ OrderCleared
       ELSE /\ alert' = "Failed to complete order"
            /\ UNCHANGED <<serverBill, orderItems, originalSubmittedItems, billNumber,
                           sequenceNumber, existingBillId>>
    /\ loading' = FALSE
    /\ op' = NoOp
    /\ UNCHANGED <<loadingLastOrder, suppressRemovedAfterFetch, fetchSuppress, categories,
                   syncs, otherBill, taps, tableNumber, products, taxSettings, token, route, other, serverNumber>>
    /\ PendingEffect

\* fetchBillNumber is answered: POST /api/bill/create goes out
CompleteBillNumber(fetched) ==
    /\ op.kind = "complete" /\ op.step = "billno"
    /\ FetchBillNumber(fetched)
    /\ IF ~fetched
       THEN /\ loading' = FALSE
            /\ op' = NoOp
            /\ alert' = "Failed to fetch bill number"
       ELSE /\ op' = [op EXCEPT !.step = "create", !.fetched = serverNumber,
                                !.create = BillData(op.items, "completed", serverNumber),
                                !.sent = Append(@, "create")]
            /\ UNCHANGED <<loading, alert>>
    /\ UNCHANGED <<serverBill, taps, serverNumber>>
    /\ OpFrame

\* the backend creates the bill and answers 2xx (ok), and updateBillNumber goes
\* out; or the request fails
CompleteCreated(ok) ==
    /\ op.kind = "complete" /\ op.step = "create"
    /\ IF ok
       THEN /\ Len(op.items) <= MaxRows
            /\ serverBill' = ServerCreate(OwnBillId, op.create)
            /\ op' = [op EXCEPT !.step = "advance", !.sent = Append(@, "updateBillNumber")]
            /\ UNCHANGED <<loading, alert>>
       ELSE /\ op' = NoOp
            /\ alert' = "Failed to complete order"
            /\ loading' = FALSE
            /\ UNCHANGED serverBill
    /\ UNCHANGED <<taps, billNumber, sequenceNumber, serverNumber>>
    /\ OpFrame

\* updateBillNumber is through: the order is cleared
CompleteAdvanced(outcome) ==
    /\ op.kind = "complete" /\ op.step = "advance"
    /\ serverNumber' = ServerNumberAfter(outcome, op.fetched)
    /\ alert' = "Success"
    /\ OrderCleared
    /\ loading' = FALSE
    /\ op' = NoOp
    /\ UNCHANGED <<loadingLastOrder, suppressRemovedAfterFetch, fetchSuppress, categories,
                   syncs, serverBill, otherBill, taps, tableNumber, products, taxSettings, token, route, other>>
    /\ PendingEffect

(* The buttons *)

\* the footer with the buttons is rendered when the draft has a line; a button
\* is disabled while an operation is in progress
Footer == Len(orderItems) > 0 /\ ~loading

ClearButton == Footer /\ existingBillId = NoBillId
CancelButton == Footer /\ existingBillId # NoBillId
CompleteButton == Footer
UpdateButton == Footer /\ existingBillId # NoBillId /\ hasPendingChanges
SubmitButton == Footer /\ existingBillId = NoBillId

(* The specifications *)

\* no request is on its way and no dialog waits for its answer
Quiet == op = NoOp /\ syncs = {}

\* the screen: the user lets every request be answered and closes every dialog
\* before the next tap
Next ==
    \/ Quiet /\ FetchLastOrder
    \/ Quiet /\ CategoriesAnswer
    \/ \E r \in syncs : FetchLastOrderAnswer(r)
    \/ \E p \in Products : Quiet /\ HandleAddToOrder(p)
    \/ \E i \in 1..Len(orderItems) : Quiet /\ HandleIncrementQuantity(i)
    \/ \E i \in 1..Len(orderItems) : Quiet /\ HandleDecrementQuantity(i)
    \/ \E i \in 1..Len(orderItems) : Quiet /\ HandleRestore(i)
    \/ Quiet /\ UpdateButton /\ UpdateKOT
    \/ UpdateKOTRefetched
    \/ UpdateKOTAnswer
    \/ Quiet /\ SubmitButton /\ SubmitKOT
    \/ \E fetched \in BOOLEAN : SubmitKOTBillNumber(fetched)
    \/ SubmitKOTCreated
    \/ \E outcome \in UpdateBillNumberOutcomes : SubmitKOTAdvanced(outcome)

Spec == Init /\ [][Next]_vars

\* the runs in which the screen only synchronises
NextSync ==
    \/ FetchLastOrder
    \/ CategoriesAnswer

SpecSync == Init /\ [][NextSync]_vars

\* the runs in which the draft is synchronised and edited and no KOT goes out
NextDraft ==
    \/ FetchLastOrder
    \/ CategoriesAnswer
    \/ \E p \in Products : HandleAddToOrder(p)
    \/ \E i \in 1..Len(orderItems) : HandleIncrementQuantity(i)
    \/ \E i \in 1..Len(orderItems) : HandleDecrementQuantity(i)
    \/ \E i \in 1..Len(orderItems) : HandleRestore(i)

SpecDraft == Init /\ [][NextDraft]_vars

\* the screen with its requests under way: the focus comes and the user taps
\* while answers are still to come
NextAsync ==
    \/ Quiet /\ CategoriesAnswer
    \/ FetchLastOrderSent
    \/ \E r \in syncs : FetchLastOrderAnswer(r)
    \/ \E p \in Products : HandleAddToOrder(p)
    \/ \E i \in 1..Len(orderItems) : HandleIncrementQuantity(i)
    \/ \E i \in 1..Len(orderItems) : HandleDecrementQuantity(i)
    \/ UpdateButton /\ UpdateKOT
    \/ UpdateKOTRefetched
    \/ UpdateKOTAnswer
    \/ SubmitButton /\ SubmitKOT
    \/ \E fetched \in BOOLEAN : SubmitKOTBillNumber(fetched)
    \/ SubmitKOTCreated
    \/ \E outcome \in UpdateBillNumberOutcomes : SubmitKOTAdvanced(outcome)

SpecAsync == Init /\ [][NextAsync]_vars

\* the handlers of the order, called in turn, each when the one before has
\* returned, on a screen that is opened with or without a table and that is
\* synchronised when the categories arrive and by the operations
InitOrder == \E table \in {NoTable, ThisTable} : Opened(table) /\ products = Catalogue

NextOrder ==
    \/ Quiet /\ CategoriesAnswer
    \/ \E r \in syncs : FetchLastOrderAnswer(r)
    \/ \E p \in Products : Quiet /\ HandleAddToOrder(p)
    \/ Quiet /\ SubmitKOT
    \/ \E fetched \in BOOLEAN : SubmitKOTBillNumber(fetched)
    \/ SubmitKOTCreated
    \/ \E outcome \in UpdateBillNumberOutcomes : SubmitKOTAdvanced(outcome)
    \/ Quiet /\ UpdateKOT
    \/ UpdateKOTRefetched
    \/ UpdateKOTAnswer
    \/ Quiet /\ HandleClearOrder
    \/ Quiet /\ HandleCancelOrder
    \/ DialogDeclined
    \/ ClearConfirmed
    \/ CancelConfirmed
    \/ \E ok \in BOOLEAN : CancelAnswer(ok)
    \/ Quiet /\ HandleCompleteOrder
    \/ \E ok \in BOOLEAN : CompleteStatusAnswer(ok)
    \/ \E fetched \in BOOLEAN : CompleteBillNumber(fetched)
    \/ \E ok \in BOOLEAN : CompleteCreated(ok)
    \/ \E outcome \in UpdateBillNumberOutcomes : CompleteAdvanced(outcome)

SpecOrder == InitOrder /\ [][NextOrder]_vars

\* the runs in which the bill of the table is synchronised, the draft is edited
\* and Update KOT sends its diff
InitDiff == OpenedWith(ThisTable, BillsWithHistory) /\ products = Catalogue

NextDiff ==
    \/ Quiet /\ CategoriesAnswer
    \/ \E r \in syncs : FetchLastOrderAnswer(r)
    \/ \E p \in Products : Quiet /\ HandleAddToOrder(p)
    \/ \E i \in 1..Len(orderItems) : Quiet /\ HandleIncrementQuantity(i)
    \/ \E i \in 1..Len(orderItems) : Quiet /\ HandleDecrementQuantity(i)
    \/ \E i \in 1..Len(orderItems) : Quiet /\ HandleRestore(i)
    \/ Quiet /\ UpdateButton /\ UpdateKOT
    \/ UpdateKOTRefetched
    \/ UpdateKOTAnswer

SpecDiff == InitDiff /\ [][NextDiff]_vars

(* A second device that runs the same screen for another table *)

\* what the second device leaves alone
OtherFrame ==
    UNCHANGED <<orderItems, originalSubmittedItems, existingBillId, hasPendingChanges,
                loading, loadingLastOrder, suppressRemovedAfterFetch, fetchSuppress,
                categories, syncs, op, serverBill, otherBill, taps, tableNumber,
                billNumber, sequenceNumber, alert, products, taxSettings, token, route>>

\* a fetch that takes the number it reads out of the sequence at once
OtherFetchedReserving ==
    /\ other.step = "idle"
    /\ other' = [step |-> "create", fetched |-> serverNumber, billNumber |-> Some(serverNumber)]
    /\ serverNumber' = serverNumber + 1
    /\ OtherFrame

\* its Submit to KOT has fetched the bill number: its POST /api/bill/create goes
\* out with the number
OtherFetched ==
    /\ other.step = "idle"
    /\ other' = [step |-> "create", fetched |-> serverNumber, billNumber |-> Some(serverNumber)]
    /\ UNCHANGED serverNumber
    /\ OtherFrame

\* its create is answered 2xx: its updateBillNumber goes out
OtherCreated ==
    /\ other.step = "create"
    /\ other' = [other EXCEPT !.step = "advance"]
    /\ UNCHANGED serverNumber
    /\ OtherFrame

\* its updateBillNumber is through
OtherAdvanced ==
    /\ other.step = "advance"
    /\ other' = [other EXCEPT !.step = "done"]
    /\ serverNumber' = other.fetched + 1
    /\ OtherFrame

\* the handlers that create a bill, and a second device that creates one too
NextTwo ==
    \/ Quiet /\ CategoriesAnswer
    \/ \E r \in syncs : FetchLastOrderAnswer(r)
    \/ \E p \in Products : Quiet /\ HandleAddToOrder(p)
    \/ Quiet /\ SubmitKOT
    \/ \E fetched \in BOOLEAN : SubmitKOTBillNumber(fetched)
    \/ SubmitKOTCreated
    \/ \E outcome \in UpdateBillNumberOutcomes : SubmitKOTAdvanced(outcome)
    \/ Quiet /\ HandleCompleteOrder
    \/ \E ok \in BOOLEAN : CompleteStatusAnswer(ok)
    \/ \E fetched \in BOOLEAN : CompleteBillNumber(fetched)
    \/ \E ok \in BOOLEAN : CompleteCreated(ok)
    \/ \E outcome \in UpdateBillNumberOutcomes : CompleteAdvanced(outcome)
    \/ OtherFetched
    \/ OtherCreated
    \/ OtherAdvanced

SpecTwo == Init /\ [][NextTwo]_vars

(* fetchTaxSettings *)

\* parseFloat(x) || 0, for a rate that is missing or written with two decimals
ParsedRate(o) == OrZero(o)

\* a fetchTaxSettings that falls back on rates of 2.5 when the request fails
FetchTaxSettingsWithFallback(ok, ts) ==
    /\ taxSettings' = IF ok
                      THEN [sgst |-> ParsedRate(ts.sgst), cgst |-> ParsedRate(ts.cgst)]
                      ELSE [sgst |-> 250, cgst |-> 250]
    /\ UNCHANGED <<orderItems, originalSubmittedItems, existingBillId, hasPendingChanges,
                   loading, loadingLastOrder, suppressRemovedAfterFetch, fetchSuppress,
                   categories, syncs, op, serverBill, otherBill, taps, tableNumber,
                   billNumber, sequenceNumber, alert, serverNumber, products, token, route, other>>

\* the request for the tax settings is answered: with the rates ts, or not at all
FetchTaxSettings(ok, ts) ==
    /\ taxSettings' = IF ok
                      THEN [sgst |-> ParsedRate(ts.sgst), cgst |-> ParsedRate(ts.cgst)]
                      ELSE taxSettings
    /\ UNCHANGED <<orderItems, originalSubmittedItems, existingBillId, hasPendingChanges,
                   loading, loadingLastOrder, suppressRemovedAfterFetch, fetchSuppress,
                   categories, syncs, op, serverBill, otherBill, taps, tableNumber,
                   billNumber, sequenceNumber, alert, serverNumber, products, token, route, other>>

\* what the footer shows of the draft (lines 1199-1200)
SubtotalShown == GetTotalOrderCost(orderItems)
TaxShown == ComputeTaxAmounts(SubtotalShown, taxSettings)

\* the price lists and the tax rates of the runs that look at the amounts
Catalogues ==
    {Catalogue,
     [p \in Products |-> IF p = "p1" THEN Some(240) ELSE Undefined],
     [p \in Products |-> IF p = "p1" THEN Some(19999) ELSE Some(10)]}

TaxAnswers ==
    {[sgst |-> Undefined, cgst |-> Undefined],
     [sgst |-> Some(250), cgst |-> Some(250)],
     [sgst |-> Some(1250), cgst |-> Some(1250)],
     [sgst |-> Some(1340), cgst |-> Some(660)]}

\* the runs in which the draft is synchronised when the categories arrive and
\* then edited, and the tax settings arrive, for several price lists
InitTotals == Opened(ThisTable) /\ products \in Catalogues

NextTotals ==
    \/ CategoriesAnswer
    \/ \E p \in Products : HandleAddToOrder(p)
    \/ \E i \in 1..Len(orderItems) : HandleDecrementQuantity(i)
    \/ \E ok \in BOOLEAN : \E ts \in TaxAnswers : FetchTaxSettings(ok, ts)

SpecTotals == InitTotals /\ [][NextTotals]_vars

----------------------------------------------------------------------------
(* The properties of the order draft *)

\* the quantities of the elements of s at the indices S, added up
RECURSIVE QuantityOver(_, _)
QuantityOver(s, S) ==
    IF S = {} THEN 0
    ELSE LET i == CHOOSE j \in S : TRUE
         IN  s[i].quantity + QuantityOver(s, S \ {i})

\* the rows of a product that count as ordered: not canceled, of a positive quantity
ActiveRowSet(rows, p) ==
    {x \in 1..Len(rows) : rows[x].pid = p /\ rows[x].status # "canceled" /\ rows[x].quantity > 0}

LinesOf(items, p, st) == {x \in 1..Len(items) : items[x].pid = p /\ items[x].itemStatus = st}

SuccessOf(bill) == [kind |-> "success", bill |-> bill]

\* the bills a request of this step may have found
BillsInReach == FoundBills(serverBill) \cup {r.resp.bill : r \in syncs}

\* this step is a run of fetchLastOrder that was answered with resp
SyncStep(resp) ==
    \/ \E found \in FoundBills(serverBill) :
          FetchLastOrderOf(found, resp) \/ CategoriesAnswerOf(found, resp)
    \/ \E r \in syncs : r.resp = resp /\ FetchLastOrderAnswer(r)

\* C1: a sync of a bill in which a product has several active rows leaves exactly
\* one original line for that product; its quantity is the sum of the rows'
\* quantities and its serverItemIds hold the id of every one of these rows.
C1_SyncAggregation ==
    [][\A bill \in BillsInReach : \A p \in Products :
          (Cardinality(ActiveRowSet(bill.items, p)) >= 2 /\ SyncStep(SuccessOf(bill)))
          => /\ Cardinality(LinesOf(orderItems', p, "original")) = 1
             /\ \A i \in LinesOf(orderItems', p, "original") :
                   /\ orderItems'[i].quantity
                          = QuantityOver(bill.items, ActiveRowSet(bill.items, p))
                   /\ {orderItems'[i].serverItemIds[k] :
                          k \in 1..Len(orderItems'[i].serverItemIds)}
                          = ActiveRowSet(bill.items, p)]_vars

\* a draft just synced from a bill with two active rows of one product: one
\* original line of quantity 2 that carries both row ids
C1_Witness ==
    /\ existingBillId # NoBillId /\ taps = 0 /\ op = NoOp
    /\ \E i \in 1..Len(orderItems) :
          /\ orderItems[i].itemStatus = "original"
          /\ orderItems[i].quantity = 2
          /\ Len(orderItems[i].serverItemIds) = 2
          /\ Cardinality(ActiveRowSet(serverBill.items, orderItems[i].pid)) = 2

\* C2: on an open bill a decrement of an original line last synced at Q leaves
\* the line one lower and a single removed line that holds the units taken so far
\* and originalQuantity Q; restoring that removed line leaves exactly one original
\* line of the product, of quantity Q, and no removed line.
C2_RemoveRestoreRoundTrip ==
    [][\A i \in 1..Len(orderItems) :
          LET p == orderItems[i].pid
              synced == {x \in 1..Len(originalSubmittedItems) : originalSubmittedItems[x].pid = p}
              Q == QuantityOver(originalSubmittedItems, synced)
          IN  /\ ( /\ existingBillId # NoBillId
                   /\ orderItems[i].itemStatus = "original"
                   /\ orderItems[i].quantity > 0
                   /\ LinesOf(orderItems, p, "original") = {i}
                   /\ Cardinality(synced) = 1
                   /\ orderItems[i].quantity
                        + QuantityOver(orderItems, LinesOf(orderItems, p, "removed")) = Q
                   /\ HandleDecrementQuantity(i) )
                 => /\ orderItems'[i].quantity = orderItems[i].quantity - 1
                    /\ Cardinality(LinesOf(orderItems', p, "removed")) = 1
                    /\ \A r \in LinesOf(orderItems', p, "removed") :
                          /\ orderItems'[r].quantity = Q - orderItems'[i].quantity
                          /\ orderItems'[r].originalQuantity = Some(Q)
              /\ ( /\ existingBillId # NoBillId
                   /\ orderItems[i].itemStatus = "removed"
                   /\ orderItems[i].localId.tag = "removed"
                   /\ orderItems[i].originalQuantity = Some(Q)
                   /\ HandleRestore(i) )
                 => /\ Cardinality(LinesOf(orderItems', p, "original")) = 1
                    /\ \A k \in LinesOf(orderItems', p, "original") :
                          orderItems'[k].quantity = Q
                    /\ LinesOf(orderItems', p, "removed") = {}]_vars

\* C3: on an open bill, a tap on the card or on + of a product that has an
\* original line leaves every original line as it was and either appends an addon
\* line of quantity 1 for the product or raises its addon line by 1: the
\* product's quantity in the draft grows by exactly 1.
C3_AddonIsolation ==
    [][\A p \in Products :
          LET addons == LinesOf(orderItems, p, "addon")
              Ordered(items) == QuantityOver(items, {x \in 1..Len(items) : items[x].pid = p /\ items[x].itemStatus # "removed"})
          IN  ( /\ existingBillId # NoBillId
                /\ LinesOf(orderItems, p, "original") # {}
                /\ \/ HandleAddToOrder(p)
                   \/ \E i \in 1..Len(orderItems) :
                         orderItems[i].pid = p /\ HandleIncrementQuantity(i) )
              => /\ \A k \in 1..Len(orderItems) :
                       orderItems[k].itemStatus = "original" => orderItems'[k] = orderItems[k]
                 /\ Ordered(orderItems') = Ordered(orderItems) + 1
                 /\ IF addons = {}
                    THEN /\ Len(orderItems') = Len(orderItems) + 1
                         /\ SubSeq(orderItems', 1, Len(orderItems)) = orderItems
                         /\ orderItems'[Len(orderItems')].pid = p
                         /\ orderItems'[Len(orderItems')].itemStatus = "addon"
                         /\ orderItems'[Len(orderItems')].quantity = 1
                    ELSE /\ Len(orderItems') = Len(orderItems)
                         /\ \E a \in addons :
                               /\ orderItems'[a] = [orderItems[a] EXCEPT !.quantity = @ + 1]
                               /\ \A k \in 1..Len(orderItems) :
                                     k # a => orderItems'[k] = orderItems[k]]_vars

\* an open bill whose product has its original line at the synced quantity and an
\* addon line that a second tap has raised to 2
C3_Witness ==
    /\ existingBillId # NoBillId /\ taps = 2
    /\ \E i, a \in 1..Len(orderItems) :
          /\ orderItems[i].itemStatus = "original"
          /\ orderItems[i].originalQuantity = Some(orderItems[i].quantity)
          /\ orderItems[a].pid = orderItems[i].pid
          /\ orderItems[a].itemStatus = "addon"
          /\ orderItems[a].quantity = 2

\* C4: in every reachable draft each product has at most one original (or
\* unclassified) line, at most one addon line and at most one removed line.
C4_OneLinePerStatus ==
    \A p \in Products :
        /\ Cardinality({x \in 1..Len(orderItems) : orderItems[x].pid = p /\ IsOriginal(orderItems[x])}) <= 1
        /\ Cardinality(LinesOf(orderItems, p, "addon")) <= 1
        /\ Cardinality(LinesOf(orderItems, p, "removed")) <= 1

\* C5: a sync that is answered "success" with a bill whose status is none of
\* pending, preparing, ready leaves the draft empty and existingBillId null.
C5_TableFreeClassification ==
    [][\A bill \in BillsInReach :
          (bill.status \notin ActiveStatuses /\ SyncStep(SuccessOf(bill)))
          => orderItems' = <<>> /\ existingBillId' = NoBillId]_vars

\* C6: a sync that finds no bill for the table leaves the draft empty and
\* existingBillId null, whatever the draft held before.
C6_NoBillClearsDraft ==
    [][SyncStep([kind |-> "table-free", bill |-> NoServerBill])
          => orderItems' = <<>> /\ existingBillId' = NoBillId]_vars

\* C7: when Update KOT computes its diff for a draft without addon line whose
\* desired quantity of every product is the sum of the product's active rows of
\* the bill, the update carries no edit and no added item.
C7_DiffMinimality ==
    ( /\ op.kind = "update" /\ op.step = "put"
      /\ \A i \in 1..Len(op.items) : op.items[i].itemStatus # "addon"
      /\ \A p \in Products :
            OrZero(DesiredByProduct(op.items, op.submitted, Len(op.items))[p])
                = QuantityOver(op.resp.bill.items, ActiveRowSet(op.resp.bill.items, p)) )
    => op.payload.edits = <<>> /\ op.payload.added = <<>>

\* Update KOT was pressed on a draft as the sync of a bill with an active and a
\* canceled row of one product left it, and has computed its diff
C7_Witness ==
    /\ op.kind = "update" /\ op.step = "put"
    /\ op.resp.bill = serverBill
    /\ op.items = MappedItems(op.resp.bill.items)
    /\ \E i, j \in 1..Len(op.resp.bill.items) :
          /\ op.resp.bill.items[i].pid = op.resp.bill.items[j].pid
          /\ op.resp.bill.items[i].status = "active"
          /\ op.resp.bill.items[j].status = "canceled"
    /\ op.payload.edits = <<>> /\ op.payload.added = <<>>

\* C8: on an open bill hasPendingChanges is true exactly when an addon line has
\* a positive quantity, or a last-synced original line has another quantity now,
\* or is gone from the draft, or has units removed by the user; it is false after
\* a sync that no tap has followed.
C8_PendingExact ==
    existingBillId # NoBillId
    => ( hasPendingChanges
         <=> \/ \E i \in 1..Len(orderItems) :
                   orderItems[i].itemStatus = "addon" /\ orderItems[i].quantity > 0
             \/ \E k \in 1..Len(originalSubmittedItems) :
                   LET o == originalSubmittedItems[k]
                       current == {x \in 1..Len(orderItems) : orderItems[x].pid = o.pid /\ IsOriginal(orderItems[x])}
                   IN  \/ current = {}
                       \/ \E i \in current : orderItems[i].quantity # o.quantity
                       \/ \E i \in LinesOf(orderItems, o.pid, "removed") :
                             orderItems[i].localId.tag = "removed" )

\* C9: every line of the draft has a localId and no two lines share one.
C9_LocalIds ==
    /\ \A i \in 1..Len(orderItems) : orderItems[i].localId # NoLocalId
    /\ \A i, j \in 1..Len(orderItems) :
          orderItems[i].localId = orderItems[j].localId => i = j

\* C10: the quantity of every line of the draft is an integer >= 0, also after
\* a decrement of a line that is at 0 already.
C10_QuantityNonNegative ==
    \A i \in 1..Len(orderItems) : orderItems[i].quantity \in Nat

\* an original line taken to 0 by the first tap on - and tapped on - again
C10_Witness ==
    /\ existingBillId # NoBillId /\ taps = 2
    /\ \E i, r \in 1..Len(orderItems) :
          /\ orderItems[i].itemStatus = "original" /\ orderItems[i].quantity = 0
          /\ orderItems[i].originalQuantity = Some(1)
          /\ orderItems[r].pid = orderItems[i].pid
          /\ orderItems[r].itemStatus = "removed" /\ orderItems[r].localId.tag = "removed"
          /\ orderItems[r].quantity = 1

----------------------------------------------------------------------------
(* The properties of the operations on the bill *)

\* the subtotal of a draft: price times quantity over the lines that are not removed
RECURSIVE SubtotalOver(_, _)
SubtotalOver(items, S) ==
    IF S = {} THEN 0
    ELSE LET i == CHOOSE j \in S : TRUE
         IN  OrZero(products[items[i].pid]) * items[i].quantity + SubtotalOver(items, S \ {i})

Subtotal(items) ==
    SubtotalOver(items, {i \in 1..Len(items) : items[i].itemStatus # "removed"})

\* the items of the create request are the lines of the draft, one for one
ItemsAreLines(sent, items) ==
    /\ Len(sent) = Len(items)
    /\ \A i \in 1..Len(items) :
          sent[i].pid = items[i].pid /\ sent[i].quantity = items[i].quantity

\* the requests of this kind among those an operation has sent
Requests(sent, kind) == {i \in 1..Len(sent) : sent[i] = kind}

\* this step ends the operation `kind` with the answer to its re-sync, a bill
SuccessfulEnd(kind) ==
    \E r \in syncs :
        /\ r.owner = "op" /\ r.resp.kind = "success"
        /\ op.kind = kind
        /\ FetchLastOrderAnswer(r)

\* C11: a Submit KOT pressed with no existing bill, on a selected table and a
\* draft with lines, whose requests are all answered with success, has sent
\* exactly one create request, with status pending, the lines of the draft as
\* items and the subtotal of the draft as totalAmount; when it ends
\* existingBillId is set and every line of the draft has status original.
C11_SubmitCreatesPending ==
    [][SuccessfulEnd("submit")
       => /\ op.billId = NoBillId /\ tableNumber # NoTable /\ Len(op.items) > 0
          /\ Cardinality(Requests(op.sent, "create")) = 1
          /\ op.create.status = "pending"
          /\ ItemsAreLines(op.create.items, op.items)
          /\ op.create.totalAmount = Decimal(Subtotal(op.items), Scale)
          /\ existingBillId' # NoBillId
          /\ \A i \in 1..Len(orderItems') : orderItems'[i].itemStatus = "original"]_vars

\* a Submit KOT has ended with success: the draft mirrors the bill it created
C11_Witness ==
    /\ op = NoOp /\ syncs = {}
    /\ existingBillId = OwnBillId /\ serverBill.status = "pending"
    /\ Len(orderItems) > 0
    /\ alert = "Success"

\* C12: Submit KOT never sends a create request while existingBillId is set, also
\* when the answer to a sync has set existingBillId after the button was pressed:
\* once the bill number is fetched the operation ends with the alert that points
\* to Update KOT, and no bill is created.
C12_NoCreateOverExistingBill ==
    [][(existingBillId # NoBillId /\ SubmitKOTBillNumber(TRUE))
       => /\ op' = NoOp
          /\ alert' = "An order already exists"
          /\ serverBill' = serverBill]_vars

\* what a request on its way, or one the backend has served, shows in
RequestState == <<op, syncs, loading, loadingLastOrder, serverBill, serverNumber>>

\* C13: Submit KOT and Complete called with an empty draft or with no table
\* selected, and Update KOT called with no existing bill id, send no request and
\* leave the draft, existingBillId, billNumber and sequenceNumber as they are.
C13_GuardsAreLocal ==
    [][(\/ (Len(orderItems) = 0 \/ tableNumber = NoTable) /\ (SubmitKOT \/ HandleCompleteOrder)
        \/ existingBillId = NoBillId /\ UpdateKOT)
       => /\ UNCHANGED <<orderItems, existingBillId, billNumber, sequenceNumber>>
          /\ UNCHANGED RequestState
          /\ op = NoOp]_vars

\* a handler has returned from its guard on the empty draft
C13_Witness ==
    /\ alert = "Empty Order"
    /\ tableNumber = ThisTable
    /\ Len(orderItems) = 0
    /\ op = NoOp /\ ~loading

\* an operation on the bill is in progress and its re-sync has not begun
InProgress ==
    /\ op.kind \in {"submit", "update", "cancel", "complete"}
    /\ op.step \notin {"dialog", "resync"}

\* the draft, the last-synced originals and the bill id
OrderState == <<orderItems, originalSubmittedItems, existingBillId>>

UpdateSent == op.kind = "update" /\ op.step \in {"put", "resync"}

SucceedsNow(kind) == op.kind = kind /\ op' = NoOp /\ alert' = "Success"

\* C16: a Complete on a selected table and a draft with lines that is answered
\* 2xx has, with an existing bill, sent status completed for the id of that bill
\* and created nothing; with no bill it has fetched a bill number and created one
\* bill with status completed.  Either way it leaves the draft and the
\* last-synced originals empty and existingBillId and billNumber null.
C16_CompleteClosesOrder ==
    [][SucceedsNow("complete")
       => /\ Len(op.items) > 0 /\ tableNumber # NoTable
          /\ IF op.billId # NoBillId
             THEN /\ op.sent = <<"updateStatus">>
                  /\ op.status = [id |-> op.billId, status |-> "completed"]
             ELSE /\ Cardinality(Requests(op.sent, "create")) = 1
                  /\ Requests(op.sent, "updateStatus") = {}
                  /\ op.sent[1] = "getBillNumber"
                  /\ op.create.status = "completed"
                  /\ op.create.billNumber = Some(op.fetched)
                  /\ ItemsAreLines(op.create.items, op.items)
          /\ orderItems' = <<>> /\ originalSubmittedItems' = <<>>
          /\ existingBillId' = NoBillId /\ billNumber' = Undefined]_vars

\* a Complete with no bill has created a completed bill and closed the order
C16_Witness ==
    /\ alert = "Success" /\ op = NoOp
    /\ serverBill.id = OwnBillId /\ serverBill.status = "completed"
    /\ orderItems = <<>> /\ existingBillId = NoBillId /\ billNumber = Undefined
    /\ serverNumber > 1

\* C17: a Cancel of an existing bill that is confirmed and answered 2xx has sent
\* status cancelled for the id of that bill and leaves the draft empty and
\* existingBillId null; a Cancel with no existing bill sends no request, and
\* empties the draft only when the user confirms.
C17_CancelClosesOrder ==
    [][/\ SucceedsNow("cancel")
          => /\ op.billId # NoBillId
             /\ op.sent = <<"updateStatus">>
             /\ op.status = [id |-> op.billId, status |-> "cancelled"]
             /\ orderItems' = <<>> /\ existingBillId' = NoBillId
       /\ (existingBillId = NoBillId /\ HandleCancelOrder)
          => /\ UNCHANGED <<OrderState, syncs, loading, loadingLastOrder, serverBill,
                            serverNumber>>
             /\ op'.kind = "clear" /\ op'.step = "dialog" /\ op'.sent = <<>>
       /\ (op.kind = "clear" /\ op.billId = NoBillId)
          => /\ UNCHANGED <<syncs, loading, serverBill, serverNumber>>
             /\ op' = NoOp
             /\ IF ClearConfirmed THEN orderItems' = <<>> ELSE UNCHANGED OrderState]_vars

\* a Cancel has been confirmed and answered 2xx
C17_Witness ==
    /\ alert = "Success" /\ op = NoOp
    /\ serverBill.status = "cancelled"
    /\ orderItems = <<>> /\ existingBillId = NoBillId

\* C18: a Clear with no existing bill that is confirmed leaves the draft and the
\* last-synced originals empty, billNumber null and sequenceNumber 0, and sends
\* no request; one that is declined leaves everything as it was.
C18_ClearIsLocal ==
    [][(op.kind = "clear" /\ op.billId = NoBillId)
       => /\ UNCHANGED <<syncs, loading, loadingLastOrder, serverBill, serverNumber>>
          /\ op' = NoOp
          /\ IF ClearConfirmed
             THEN /\ orderItems' = <<>> /\ originalSubmittedItems' = <<>>
                  /\ billNumber' = Undefined /\ sequenceNumber' = 0
             ELSE UNCHANGED <<OrderState, billNumber, sequenceNumber, hasPendingChanges,
                              suppressRemovedAfterFetch, taps>>]_vars

\* a Clear of a draft the user has made, with no bill about, has been confirmed
C18_Witness ==
    /\ op = NoOp /\ alert = NoAlert /\ categories
    /\ taps >= 1
    /\ serverBill = NoServerBill /\ existingBillId = NoBillId
    /\ orderItems = <<>> /\ originalSubmittedItems = <<>>
    /\ billNumber = Undefined /\ sequenceNumber = 0

\* the suppress flags the next run of fetchLastOrder may carry: that of the
\* callback in use and, while the categories are still to come, that of the
\* callback their arrival will make
NextSuppress(captured, flag, arrived) ==
    {captured} \cup (IF arrived THEN {} ELSE {flag})

\* the draft, the originals and the bill id after fetchLastOrder has run on the
\* answer resp, its callback carrying the flag s
Synced(resp, s, items, submitted, flag) ==
    LET after == SyncedState(SyncRequest("focus", resp, s), items, submitted, flag)
    IN  <<after.orderItems, after.originalSubmittedItems, after.existingBillId>>

\* C19: a sync is idempotent: when fetchLastOrder has run on a bill, running it
\* again at once on the same bill leaves the draft (lines, statuses, quantities,
\* originalQuantity, localIds, serverItemIds), the last-synced originals and
\* existingBillId as the first run left them; also for the first syncs after an
\* Update KOT.
C19_SyncIdempotent ==
    [][\A bill \in BillsInReach :
          SyncStep(SuccessOf(bill))
          => \A s \in NextSuppress(fetchSuppress', suppressRemovedAfterFetch', categories') :
                Synced(SuccessOf(bill), s, orderItems', originalSubmittedItems',
                       suppressRemovedAfterFetch') = OrderState']_vars


\* the draft holds, for every product, one original line if the bill has active
\* rows of it and one removed line if the bill has canceled rows of it, and no
\* other line
IsMirror(items, bill) ==
    /\ \A p \in Products :
          /\ Cardinality(LinesOf(items, p, "original"))
                 = (IF ActiveRowSet(bill.items, p) # {} THEN 1 ELSE 0)
          /\ Cardinality(LinesOf(items, p, "removed"))
                 = (IF \E x \in 1..Len(bill.items) :
                          bill.items[x].pid = p /\ bill.items[x].status = "canceled"
                    THEN 1 ELSE 0)
    /\ \A i \in 1..Len(items) : items[i].itemStatus \in {"original", "removed"}

\* C20: the refetch that lands last wins: when a sync answer that carries an open
\* bill is applied, whatever the answers, edits and Update KOTs before it, the draft
\* is the mirror of that bill (one original line per product with active rows,
\* one removed line per product with canceled rows) and has no addon and no
\* unclassified line.
C20_LastRefetchWins ==
    [][\A bill \in BillsInReach :
          (tableNumber # NoTable /\ bill.status \in ActiveStatuses
              /\ SyncStep(SuccessOf(bill)))
          => /\ orderItems' = MappedItems(bill.items)
             /\ IsMirror(orderItems', bill)]_vars

----------------------------------------------------------------------------
(* The properties of the amounts *)

\* a < b, for limbs without leading zeros
LessBig(a, b) ==
    \/ Len(a) < Len(b)
    \/ /\ Len(a) = Len(b)
       /\ \E i \in 1..Len(a) : a[i] < b[i] /\ \A j \in (i + 1)..Len(a) : a[j] = b[j]

\* x <= y
LessEq(x, y) ==
    LET low == Min(x.e, y.e)
        a == ShiftLeft(x.m, x.e - low)
        b == ShiftLeft(y.m, y.e - low)
    IN  a = b \/ LessBig(a, b)

\* the greatest integer not above subtotal + subtotal * sgst / 100 + subtotal * cgst / 100
\* for the prices and rates as they are written: the subtotal in hundredths times
\* (10000 + sgst + cgst), over 1000000
ExactPayable(items, settings) ==
    LET product == MulBig(Big(Subtotal(items)), Big(Scale * 100 + settings.sgst + settings.cgst))
    IN  ToInt(DivSmall(DivSmall(product, 1000).q, 1000).q)

\* C21: payableAmount is the greatest integer not above
\* subtotal + subtotal * sgst / 100 + subtotal * cgst / 100, for every draft and
\* every tax setting.
C21_PayableIsExactFloor ==
    TaxShown.payableAmount = ExactPayable(orderItems, taxSettings)

\* C21, amended: payableAmount is the greatest integer not above totalWithTax,
\* the number that subtotal + sgstAmount + cgstAmount gives in binary64
\* arithmetic; it is the exact floor or one away from it.
C21_PayableIsFloorOfDouble ==
    LET shown == TaxShown
    IN  /\ LessEq(Num(shown.payableAmount), shown.totalWithTax)
        /\ ~LessEq(Num(shown.payableAmount + 1), shown.totalWithTax)
        /\ shown.payableAmount - ExactPayable(orderItems, taxSettings) \in {-1, 0, 1}

\* subtotal 199.99 with sgst 2.5 and cgst 2.5: payable 209
C21_Witness ==
    /\ Subtotal(orderItems) = 19999
    /\ taxSettings = [sgst |-> 250, cgst |-> 250]
    /\ TaxShown.payableAmount = 209

\* C22: with cgst = sgst = 0 both tax amounts are 0 and payableAmount is the
\* greatest integer not above the subtotal; the rates are 0 when the screen opens
\* and a fetch of the tax settings that fails leaves them as they are.
C22_NoTax ==
    /\ [](taxSettings = NoTax
          => /\ TaxShown.sgstAmount = Zero /\ TaxShown.cgstAmount = Zero
             /\ TaxShown.totalWithTax = SubtotalShown
             /\ LessEq(Num(TaxShown.payableAmount), SubtotalShown)
             /\ ~LessEq(Num(TaxShown.payableAmount + 1), SubtotalShown)
             /\ TaxShown.payableAmount = Subtotal(orderItems) \div Scale)
    /\ [][\A ts \in TaxAnswers : FetchTaxSettings(FALSE, ts) => taxSettings' = taxSettings]_vars

\* no tax rates yet and a draft of 2.40: payable 2
C22_Witness ==
    /\ taxSettings = NoTax
    /\ Subtotal(orderItems) = 240
    /\ TaxShown.payableAmount = 2

\* the price of a unit of the product p, 0 if the product has none
UnitPrice(p) == IF products[p] = Undefined THEN Zero ELSE Decimal(OrZero(products[p]), Scale)

\* the sum of price times quantity over the lines, added up in their order
RECURSIVE SumOfLines(_)
SumOfLines(lines) ==
    IF lines = <<>> THEN Zero
    ELSE LET last == lines[Len(lines)]
         IN  Plus(SumOfLines(SubSeq(lines, 1, Len(lines) - 1)),
                  Times(UnitPrice(last.pid), Num(last.quantity)))

\* C23: in every state of the draft the subtotal is the sum of price times
\* quantity over the lines that are not removed, a missing price counting as 0;
\* a removed line adds nothing, whatever its quantity.  The sum is the one
\* binary64 arithmetic gives, within a hundredth of the exact one and equal to it
\* for whole prices.
C23_Subtotal ==
    /\ SubtotalShown = SumOfLines(SelectSeq(orderItems, LAMBDA it : it.itemStatus # "removed"))
    /\ LessEq(Decimal(Max(Subtotal(orderItems) - 1, 0), Scale), SubtotalShown)
    /\ LessEq(SubtotalShown, Decimal(Subtotal(orderItems) + 1, Scale))
    /\ (\A i \in 1..Len(orderItems) : OrZero(products[orderItems[i].pid]) % Scale = 0)
       => SubtotalShown = Decimal(Subtotal(orderItems), Scale)

\* a draft with a removed line that holds units, a line of a product without a
\* price and a line of a product with one
C23_Witness ==
    /\ \E i \in 1..Len(orderItems) :
          orderItems[i].itemStatus = "removed" /\ orderItems[i].quantity > 0
          /\ products[orderItems[i].pid] # Undefined
    /\ \E i \in 1..Len(orderItems) :
          orderItems[i].itemStatus # "removed" /\ orderItems[i].quantity > 0
          /\ products[orderItems[i].pid] = Undefined
    /\ \E i \in 1..Len(orderItems) :
          orderItems[i].itemStatus # "removed" /\ orderItems[i].quantity > 0
          /\ products[orderItems[i].pid] # Undefined
    /\ Subtotal(orderItems) > 0


(* The properties of the session *)

\* C24: whenever a backend request of the order flow is answered 401, the stored
\* session token is removed and the router is sent to the login screen, and the
\* request is not sent again: for the table status fetched by a sync, and for the
\* table status Update KOT fetches before it computes its diff.
C24_UnauthorizedSignsOut ==
    [][/\ \A r \in syncs :
             FetchLastOrderAnswer(r) /\ r.resp.kind = "unauthorized"
             => ~token' /\ route' = LoginScreen /\ syncs' \subseteq syncs \ {r}
       /\ UpdateKOTRefetched /\ op.resp.kind = "unauthorized"
          => ~token' /\ route' = LoginScreen /\ op' = NoOp]_vars

----------------------------------------------------------------------------
(* The properties of the diff of Update KOT *)

\* Update KOT has computed its diff and has sent it
DiffSent == op.kind = "update" /\ op.step = "put"

\* the desired quantities of the draft Update KOT was pressed on
DesiredOf(o) == DesiredByProduct(o.items, o.submitted, Len(o.items))

\* the rows of the product of row i that come before it in the bill and are not canceled
ActiveBefore(rows, i) ==
    {j \in 1..(i - 1) : rows[j].pid = rows[i].pid /\ rows[j].status # "canceled"}

\* what is left of the desired quantity d for row i when the rows before it are served
Target(rows, i, d) ==
    Min(rows[i].quantity, Max(0, d - QuantityOver(rows, ActiveBefore(rows, i))))

\* C25: in the diff of Update KOT the active rows of a product with a desired
\* quantity D get, in bill order, min(row quantity, remaining), remaining being D
\* less what the rows before took; a row is an edit exactly when its new quantity
\* is not its current one, canceled exactly when it is 0 and edit otherwise; no
\* row gets more than it has.
C25_GreedyDistribution ==
    DiffSent =>
        LET rows == op.resp.bill.items
            desired == DesiredOf(op)
            edits == op.payload.edits
            Served(i) == desired[rows[i].pid] # Undefined /\ rows[i].status # "canceled"
            New(i) == Target(rows, i, OrZero(desired[rows[i].pid]))
        IN  /\ \A i \in 1..Len(rows) :
                  (Served(i) /\ New(i) # rows[i].quantity)
                  <=> \E e \in 1..Len(edits) : edits[e].itemId = i
            /\ \A e, f \in 1..Len(edits) : edits[e].itemId = edits[f].itemId => e = f
            /\ \A e \in 1..Len(edits) :
                  /\ edits[e].itemId \in 1..Len(rows)
                  /\ edits[e].newQuantity = New(edits[e].itemId)
                  /\ edits[e].changeType = (IF edits[e].newQuantity = 0 THEN "canceled" ELSE "edit")
                  /\ edits[e].newQuantity < rows[edits[e].itemId].quantity
            /\ \A i \in 1..Len(rows) : op.payload.items[i].quantity <= rows[i].quantity

\* two active rows of a product, one unit taken off the draft: the first row
\* keeps its quantity and the second one is edited, or canceled
C25_Witness ==
    /\ DiffSent
    /\ Len(op.resp.bill.items) = 2
    /\ \A i \in 1..2 : op.resp.bill.items[i].pid = "p1" /\ op.resp.bill.items[i].status = "active"
    /\ \/ /\ op.resp.bill.items[2].quantity = 2
          /\ op.payload.edits = <<[itemId |-> 2, newQuantity |-> 1, changeType |-> "edit"]>>
       \/ /\ op.resp.bill.items[1].quantity = 2
          /\ op.payload.edits = <<[itemId |-> 2, newQuantity |-> 0, changeType |-> "canceled"]>>


\* the rows the update adds to those of the bill
NewRows(o) ==
    SubSeq(o.payload.items, Len(o.resp.bill.items) + 1, Len(o.payload.items))

\* the units of the product p its active rows cannot supply: those of its addon
\* lines, and what the desired quantity has above the rows
Unsupplied(o, p) ==
    LET rows == o.resp.bill.items
        d == DesiredOf(o)[p]
    IN  QuantityOver(o.items, {x \in LinesOf(o.items, p, "addon") : o.items[x].quantity > 0})
        + (IF d = Undefined THEN 0
           ELSE Max(0, OrZero(d) - QuantityOver(rows, ActiveRowSet(rows, p))))

\* C26: every unit the rows of the bill cannot supply goes out with Update KOT as
\* a new row with one update record add: the units of every addon line with a
\* positive quantity, and those the desired quantity of a product has above
\* the sum of its active rows.
C26_UnsuppliedBecomesAdd ==
    DiffSent =>
        LET new == NewRows(op)
        IN  /\ \A k \in 1..Len(new) :
                  /\ new[k].status = "active" /\ new[k].quantity > 0
                  /\ new[k].updates = <<Update("add", new[k].quantity)>>
            /\ \A p \in Products :
                  QuantityOver(new, {k \in 1..Len(new) : new[k].pid = p}) = Unsupplied(op, p)


\* the units of the product p the draft asks for: those of its original and of
\* its addon lines
DraftQuantity(items, p) ==
    QuantityOver(items, {x \in 1..Len(items) :
                            items[x].pid = p /\ items[x].itemStatus \in {"original", "addon"}})

\* the units of the product p in the rows of an update that are not canceled
SentQuantity(rows, p) ==
    QuantityOver(rows, {x \in 1..Len(rows) : rows[x].pid = p /\ rows[x].status # "canceled"})

\* C27: when Update KOT refetches the bill as the last sync left it, the rows it
\* sends hold of every product, in the rows that are not canceled, as many units
\* as the original and addon lines of the draft, whatever taps on product cards,
\* +, - and restore have made of the draft.
C27_Convergence ==
    [][(UpdateKOT /\ op'.kind = "update" /\ op'.resp.kind = "success"
           /\ op'.resp.bill = serverBill)
       => \A p \in Products :
             SentQuantity(UpdateData(op'.items, op'.submitted, op'.billId, op'.resp.bill).items, p)
                 = DraftQuantity(op'.items, p)]_vars


IsPrefix(s, t) == Len(s) <= Len(t) /\ SubSeq(t, 1, Len(s)) = s

\* C28: the audit trail is append-only: of every row of the refetched bill the
\* updates list is a prefix of the one Update KOT sends; a row that is edited or
\* canceled gets exactly one record more, with the quantity |new - old|, a row
\* that is not edited keeps its list, and a new row starts with the one record
\* add of its quantity.
C28_AuditTrailAppendOnly ==
    DiffSent =>
        LET rows == op.resp.bill.items
            sent == op.payload.items
            edits == op.payload.edits
            Edit(i) == {e \in 1..Len(edits) : edits[e].itemId = i}
        IN  /\ Len(sent) >= Len(rows)
            /\ \A i \in 1..Len(rows) :
                  /\ IsPrefix(rows[i].updates, sent[i].updates)
                  /\ Edit(i) = {} => sent[i].updates = rows[i].updates
                  /\ \A e \in Edit(i) :
                        /\ Len(sent[i].updates) = Len(rows[i].updates) + 1
                        /\ sent[i].updates[Len(sent[i].updates)]
                              = [changeType |-> edits[e].changeType,
                                 quantity |-> Abs(edits[e].newQuantity - rows[i].quantity)]
            /\ \A k \in (Len(rows) + 1)..Len(sent) :
                  sent[k].updates = <<[changeType |-> "add", quantity |-> sent[k].quantity]>>

\* a row with a record is edited and gets a second one, beside a row that keeps
\* the record it has
C28_Witness ==
    /\ DiffSent
    /\ \E i, j \in 1..Len(op.resp.bill.items) :
          /\ op.resp.bill.items[i].updates # <<>>
          /\ Len(op.payload.items[i].updates) = Len(op.resp.bill.items[i].updates) + 1
          /\ op.payload.items[i].quantity = op.resp.bill.items[i].quantity - 1
          /\ op.resp.bill.items[j].updates # <<>>
          /\ op.payload.items[j].updates = op.resp.bill.items[j].updates


(* The properties of the bill number *)

\* the place of the first request `name` among those the operation has sent, 0 when none
FirstSent(name) == FindIndex({k \in 1..Len(op.sent) : op.sent[k] = name})

\* C29: Submit KOT and Complete without a bill reserve the bill number by two
\* calls in turn, the fetch of the current number and the advance of the
\* sequence to the fetched one plus 1, and both are through when the request
\* that creates the bill is built and sent.
C29_ReservedBeforeCreate ==
    /\ []((op.kind \in {"submit", "complete"} /\ FirstSent("create") # 0)
          => /\ 0 < FirstSent("getBillNumber")
             /\ FirstSent("getBillNumber") < FirstSent("updateBillNumber")
             /\ FirstSent("updateBillNumber") < FirstSent("create"))
    /\ [][\A outcome \in UpdateBillNumberOutcomes \ {"failed"} :
             (SubmitKOTAdvanced(outcome) \/ CompleteAdvanced(outcome))
             => serverNumber' = op.fetched + 1]_vars


\* this device has fetched a bill number for a bill it creates and its advance of
\* the sequence is not through
Reserving == op.kind \in {"submit", "complete"} /\ op.step \in {"create", "advance"}

\* C30: the client does not keep bill numbers unique: when one of two devices
\* that create a bill fetches the bill number after the other has fetched it
\* and before the other has advanced the sequence, its create request carries
\* the bill number of the other's create request.
C30_SameBillNumber ==
    /\ [][(OtherFetched /\ Reserving) => other'.billNumber = op.create.billNumber]_vars
    /\ [][((SubmitKOTBillNumber(TRUE) \/ CompleteBillNumber(TRUE))
             /\ other.step \in {"create", "advance"} /\ op'.step = "create")
          => op'.create.billNumber = other.billNumber]_vars

\* both devices have had their bill created, with the same bill number, and
\* neither has advanced the sequence yet
C30_Witness ==
    /\ op.kind \in {"submit", "complete"} /\ op.step = "advance"
    /\ other.step = "advance"
    /\ op.create.billNumber = other.billNumber
    /\ other.billNumber = Some(serverNumber)

----------------------------------------------------------------------------
(* The properties of the draft after an operation *)

\* the re-sync of a successful Update KOT is answered with the bill
UpdateResynced(r) ==
    /\ r \in syncs /\ r.owner = "op" /\ r.resp.kind = "success"
    /\ op.kind = "update" /\ op.step = "resync"
    /\ FetchLastOrderAnswer(r)

\* the units of the original lines of the product p
OriginalQuantity(items, p) == QuantityOver(items, LinesOf(items, p, "original"))

\* C31: after a successful Update KOT and its re-sync the draft has no addon
\* line and no removed line made by the user, and the original lines of every
\* product hold the units its original and addon lines held before the update.
C31_UpdateMerges ==
    [][\A r \in syncs :
          UpdateResynced(r)
          => /\ \A i \in 1..Len(orderItems') :
                   /\ orderItems'[i].itemStatus # "addon"
                   /\ orderItems'[i].localId.tag # "removed"
             /\ \A p \in Products :
                   /\ Cardinality(LinesOf(orderItems', p, "original")) <= 1
                   /\ OriginalQuantity(orderItems', p) = DraftQuantity(op.items, p)]_vars

\* a draft with an original and an addon line of a product was sent, and the
\* re-sync has left one original line with the units of both

\* the line the - or + button of row i addresses: the first line with the localId handed over
Addressed(i) ==
    FindIndex({x \in 1..Len(orderItems) : orderItems[x].localId = ButtonLocalId(orderItems, i)})

\* an addon line, or an unclassified line of a table with no bill
PlainLine(it) ==
    \/ it.itemStatus = "addon"
    \/ it.itemStatus = "none" /\ existingBillId = NoBillId

OriginalLines(items, p) == {x \in 1..Len(items) : items[x].pid = p /\ IsOriginal(items[x])}

\* one original line of p, and its quantity and the removed quantity of p add up to q
Balanced(items, p, q) ==
    /\ Cardinality(OriginalLines(items, p)) = 1
    /\ Cardinality(LinesOf(items, p, "removed")) <= 1
    /\ QuantityOver(items, OriginalLines(items, p))
         + QuantityOver(items, LinesOf(items, p, "removed")) = q

\* C33: on an open bill, for a product last synced with original quantity Q, a sync
\* leaves one original line whose quantity and the removed quantity add up to Q, and
\* every decrement of that original line keeps the original line and the sum, and
\* leaves a removed line whose originalQuantity is Q.
C33_RemovalConserves ==
    /\ [][\A bill \in BillsInReach : \A k \in 1..Len(originalSubmittedItems') :
             (SyncStep(SuccessOf(bill)) /\ existingBillId' # NoBillId)
             => Balanced(orderItems', originalSubmittedItems'[k].pid,
                         originalSubmittedItems'[k].quantity)]_vars
    /\ [][\A i \in 1..Len(orderItems) : \A k \in 1..Len(originalSubmittedItems) :
             LET idx == Addressed(i)
                 p == originalSubmittedItems[k].pid
                 Q == originalSubmittedItems[k].quantity
             IN  (/\ HandleDecrementQuantity(i)
                  /\ existingBillId # NoBillId
                  /\ IsOriginal(orderItems[idx]) /\ orderItems[idx].pid = p
                  /\ Balanced(orderItems, p, Q))
                 => /\ Balanced(orderItems', p, Q)
                    /\ LinesOf(orderItems', p, "removed") # {}
                    /\ \A x \in LinesOf(orderItems', p, "removed") :
                          orderItems'[x].originalQuantity = Some(Q)]_vars

C33_Witness ==
    /\ existingBillId # NoBillId
    /\ \E i, j \in 1..Len(orderItems) :
          /\ orderItems[i].pid = orderItems[j].pid
          /\ orderItems[i].itemStatus = "original" /\ orderItems[i].quantity = 0
          /\ orderItems[j].itemStatus = "removed" /\ orderItems[j].quantity = 2
          /\ orderItems[j].originalQuantity = Some(2)
          /\ \E k \in 1..Len(originalSubmittedItems) :
                /\ originalSubmittedItems[k].pid = orderItems[i].pid
                /\ originalSubmittedItems[k].quantity = 2

\* the step keeps every line of the draft outside S as it was, and a line it appends
\* is a line of product p
KeepsAllBut(S, p) ==
    /\ Len(orderItems') >= Len(orderItems)
    /\ \A k \in 1..Len(orderItems) : k \notin S => orderItems'[k] = orderItems[k]
    /\ \A k \in (Len(orderItems) + 1)..Len(orderItems') : orderItems'[k].pid = p

\* C34: a tap changes no line it does not address. A tap on the card of product P
\* changes at most the lines of P that are not removed lines; + on a line changes at
\* most that line and the addon line of its product; - on a line changes at most that
\* line and the removed line of its product, or takes that line out; lines of other
\* products and, on add, the removed line of P stay as they were.
C34_FrameOfTaps ==
    /\ [][\A p \in Products :
             HandleAddToOrder(p)
             => KeepsAllBut({x \in 1..Len(orderItems) :
                                orderItems[x].pid = p /\ orderItems[x].itemStatus # "removed"}, p)]_vars
    /\ [][\A i \in 1..Len(orderItems) :
             HandleIncrementQuantity(i)
             => LET p == orderItems[Addressed(i)].pid
                IN  KeepsAllBut({Addressed(i)} \cup LinesOf(orderItems, p, "addon"), p)]_vars
    /\ [][\A i \in 1..Len(orderItems) :
             HandleDecrementQuantity(i)
             => LET p == orderItems[Addressed(i)].pid
                IN  \/ KeepsAllBut({Addressed(i)} \cup LinesOf(orderItems, p, "removed"), p)
                    \/ orderItems' = RemoveAt(orderItems, Addressed(i))]_vars

(* The properties of a failed request *)

\* the answer that stands for a request that got no response, or an error
RequestFailed == [kind |-> "error", bill |-> NoServerBill]

\* C35: a sync whose request fails (no response, or an error) changes no state: the
\* draft, the last-synced originals and existingBillId are after it what they were
\* before it.
C35_FailedSyncKeepsState ==
    [][SyncStep(RequestFailed)
       => /\ orderItems' = orderItems
          /\ originalSubmittedItems' = originalSubmittedItems
          /\ existingBillId' = existingBillId]_vars

\* C39: a Submit KOT that creates no bill (rejected because a bill already exists, or
\* its create request failed) leaves billNumber and sequenceNumber as they were: no
\* step of such a Submit KOT changes them.
C39_NoBillNoNumber ==
    /\ [][\A fetched \in BOOLEAN :
             (SubmitKOTBillNumber(fetched) /\ (op' = NoOp \/ ~op'.ok))
             => /\ billNumber' = billNumber
                /\ sequenceNumber' = sequenceNumber]_vars
    /\ [][(SubmitKOTCreated /\ ~op.ok)
          => /\ billNumber' = billNumber
             /\ sequenceNumber' = sequenceNumber]_vars

(* The bill of the table is shared with a second device *)

\* Update KOT of a second device is answered 2xx: it has added a row of one unit of
\* p to the open bill of the table
OtherUpdated(p) ==
    /\ serverBill.exists /\ serverBill.status \in ActiveStatuses
    /\ Len(serverBill.items) < MaxRows
    /\ serverBill' = [serverBill EXCEPT
                         !.items = @ \o NewItemsFormatted(<<[pid |-> p, quantity |-> 1]>>)]
    /\ UNCHANGED <<orderItems, originalSubmittedItems, existingBillId, hasPendingChanges,
                   loading, loadingLastOrder, suppressRemovedAfterFetch, fetchSuppress,
                   categories, syncs, op, otherBill, taps, tableNumber, billNumber,
                   sequenceNumber, alert, serverNumber, products, taxSettings, token,
                   route, other>>

\* the runs in which the bill is synchronised, the draft is edited and Update KOT
\* sends its diff, while a second device adds rows to the bill
NextShared ==
    \/ Quiet /\ CategoriesAnswer
    \/ \E r \in syncs : FetchLastOrderAnswer(r)
    \/ \E p \in Products : Quiet /\ HandleAddToOrder(p)
    \/ \E i \in 1..Len(orderItems) : Quiet /\ HandleDecrementQuantity(i)
    \/ Quiet /\ UpdateButton /\ UpdateKOT
    \/ UpdateKOTRefetched
    \/ UpdateKOTAnswer
    \/ \E p \in Products : Quiet /\ OtherUpdated(p)

SpecShared == Init /\ [][NextShared]_vars

----------------------------------------------------------------------------
(* The properties of Update KOT against other terminals *)

\* the user has not touched product p since the last sync: the draft has no addon
\* line of p, no unit of p is removed, and the original lines of p are the last-synced
\* ones with their quantities
Untouched(items, submitted, p) ==
    /\ LinesOf(items, p, "addon") = {}
    /\ \A x \in LinesOf(items, p, "removed") : items[x].quantity = 0
    /\ Cardinality(OriginalLines(items, p)) = Cardinality(OriginalLines(submitted, p))
    /\ \A x \in OriginalLines(items, p) : \A y \in OriginalLines(submitted, p) :
          items[x].quantity = submitted[y].quantity

\* C38: Update KOT edits or cancels a row of product P of the refetched bill only if
\* the user changed P in the draft since the last sync: the rows of a product the
\* user has not touched, those another terminal added or changed since included, go
\* back with the quantity and the status the refetch found (rows that are canceled
\* already are not looked at: they are sent with quantity 0 whatever the draft holds).
C38_NoLostUpdate ==
    [][(UpdateKOTRefetched /\ op.resp.kind = "success")
       => \A k \in 1..Len(op.resp.bill.items) :
             (/\ op.resp.bill.items[k].status # "canceled"
              /\ Untouched(op.items, op.submitted, op.resp.bill.items[k].pid))
             => /\ op'.payload.items[k].pid = op.resp.bill.items[k].pid
                /\ op'.payload.items[k].quantity = op.resp.bill.items[k].quantity
                /\ op'.payload.items[k].status = op.resp.bill.items[k].status]_vars

(* The operations end *)

\* a request of the operation under way is answered, by a response or by a failure;
\* one operation runs at a time, so at most one of these is enabled
OpAnswered ==
    \/ \E fetched \in BOOLEAN : SubmitKOTBillNumber(fetched)
    \/ SubmitKOTCreated
    \/ \E outcome \in UpdateBillNumberOutcomes : SubmitKOTAdvanced(outcome)
    \/ UpdateKOTRefetched
    \/ UpdateKOTAnswer
    \/ \E ok \in BOOLEAN : CancelAnswer(ok)
    \/ \E ok \in BOOLEAN : CompleteStatusAnswer(ok)
    \/ \E fetched \in BOOLEAN : CompleteBillNumber(fetched)
    \/ \E ok \in BOOLEAN : CompleteCreated(ok)
    \/ \E outcome \in UpdateBillNumberOutcomes : CompleteAdvanced(outcome)

\* every request to the backend is answered in the end
RequestsAnswered ==
    /\ WF_vars(\E r \in syncs : FetchLastOrderAnswer(r))
    /\ WF_vars(OpAnswered)

\* the handlers with a backend that answers every request
SpecOrderFair == InitOrder /\ [][NextOrder]_vars /\ RequestsAnswered

\* C36: every started Submit KOT, Update KOT, Cancel or Complete ends with loading
\* false, on success, on rejection after the indicator was set and on a failed
\* request, when every request to the backend is answered in the end.
C36_LoadingEnds == loading ~> (~loading /\ op = NoOp)

\* an Update KOT has ended on a failed request, with the indicator off
C36_Witness ==
    /\ ~loading /\ op = NoOp
    /\ alert = "Failed to update KOT"
    /\ existingBillId # NoBillId
    /\ taps > 0

(* The table selection changes *)

OtherTable == "t2"          \* params.tableNumber after the user picked another table
OtherTableBillId == "b3"    \* the id of the bill the backend holds for that table

\* what the backend holds for the other table: no bill, or an open bill
OtherTableBills ==
    {NoServerBill,
     [exists |-> TRUE, id |-> OtherTableBillId, status |-> "pending",
      items |-> <<Row("p2", 1, "active")>>, billNumber |-> OtherBillNumber]}

\* the params of the route change from this table to the other one while the screen
\* stays mounted: the effect of tableNumber empties the state of the table, and
\* fetchLastOrder, made anew, is called for the other table
TableChanged ==
    /\ OnScreen
    /\ tableNumber = ThisTable
    /\ op = NoOp
    /\ tableNumber' = OtherTable
    /\ orderItems' = <<>>
    /\ originalSubmittedItems' = <<>>
    /\ existingBillId' = NoBillId
    /\ billNumber' = Undefined
    /\ fetchSuppress' = suppressRemovedAfterFetch
    /\ \E found \in OtherTableBills : \E resp \in TableStatusResponses(found) :
          syncs' = syncs \cup {SyncRequest("table", resp, suppressRemovedAfterFetch)}
    /\ loadingLastOrder' = TRUE
    /\ UNCHANGED <<loading, suppressRemovedAfterFetch, categories, op, serverBill, otherBill,
                   taps, sequenceNumber, alert, serverNumber, products, taxSettings,
                   token, route, other>>
    /\ PendingEffect

\* the screen with its requests under way, on which the table is changed once; the
\* categories arrive and the focus comes while the first table is shown
NextTables ==
    \/ tableNumber = ThisTable /\ Quiet /\ CategoriesAnswer
    \/ tableNumber = ThisTable /\ FetchLastOrderSent
    \/ \E r \in syncs : FetchLastOrderAnswer(r)
    \/ \E p \in Products : HandleAddToOrder(p)
    \/ TableChanged

SpecTables == Init /\ [][NextTables]_vars

\* C37: when the table changes the draft, the last-synced set and existingBillId are
\* reset at once; the answer to a request made for the first table changes none of
\* them once the other table is shown; and when no answer is under way any more,
\* existingBillId is null or the id of the other table's bill.
C37_TableIsolation ==
    /\ [][TableChanged
          => /\ orderItems' = <<>>
             /\ originalSubmittedItems' = <<>>
             /\ existingBillId' = NoBillId]_vars
    /\ [][\A r \in syncs :
             (FetchLastOrderAnswer(r) /\ tableNumber = OtherTable /\ r.owner # "table")
             => UNCHANGED <<orderItems, originalSubmittedItems, existingBillId>>]_vars
    /\ []((tableNumber = OtherTable /\ syncs = {})
          => existingBillId \in {NoBillId, OtherTableBillId})

====
